---- MODULE Spec2Model ----
(***************************************************************************)
(* A model of the IRC server of this repository: the server registry       *)
(* (fd table, poll set, nickname index, channel registry), the channel     *)
(* record with its three nick-keyed maps, and the command handlers that    *)
(* mutate them.  Client pointers are modelled by the client's fd: a Client *)
(* record is allocated once per accepted socket and never moves.           *)
(***************************************************************************)
EXTENDS Integers, Sequences, FiniteSets, TLC

VARIABLES
    clients,     \* Server::_clients : fd -> Client record
    fds,         \* Server::_fds without the listening socket: polled client fds
    nicknames,   \* Server::_nicknames : the vector as a bag, nick -> occurrences
    channels,    \* Server::_channels : name -> Channel record
    enq,         \* frames the last handler pushed on each client's serverReplies
    closed,      \* fds on which close() has been called
    serverReplies, \* Client::serverReplies as a queue of numbered frames (send loop)
    wire,        \* the frames send() has written to each socket, in order
    pushed,      \* how many frames have been pushed on each client's queue
    fails,       \* how many send() calls have returned -1
    buffer,      \* Client::_messageBuffer : the bytes received and not yet dispatched
    received,    \* every byte recv() has delivered from each client, in order
    dispatched,  \* the ParseMessage records handed to processCommand, in order
    signalInterrupt, \* the global flag the signal handler sets
    loop,        \* where runServer is: "poll", "accept", "iter", "thrown", "exited"
    revents      \* the events of the fds the tick in progress has gone through

vars == <<clients, fds, nicknames, channels, enq, closed,
          serverReplies, wire, pushed, fails, buffer, received, dispatched,
          signalInterrupt, loop, revents>>

----------------------------------------------------------------------------
(* Bounds of the model *)

MaxClients == 2          \* connections accepted in one run
MaxFrames == 3           \* frames pushed on one client's queue in one run
MaxFails == 2            \* send() calls that return -1 in one run
MaxBytes == 6            \* bytes received from one client in one run

Nicks == {"a", "b", "c", "d"}
NickOrder == <<"a", "b", "c", "d">>  \* std::map<std::string,...> key order
Crew == <<"a", "b", "c">>            \* the nicks of the clients of a populated server
BadNick == "#a"                      \* contains one of "#@:&"
ChanNames == {"#x", "#y"}
AmpChan == "&x"                      \* a channel name with the & prefix
ChanOrder == <<"#x", "#y", "&x">>    \* std::map key order of _channels
NoChan == "z"                        \* a name without the # or & prefix
Keys == {"k1", "k2"}
BadKey == "k!"                       \* not alphanumeric
Topics == {"t1"}

\* every fd a model run can hand out
Fds == 1..(IF MaxClients > Len(Crew) THEN MaxClients ELSE Len(Crew))

----------------------------------------------------------------------------
(* std::map<std::string, Client*> helpers *)

EmptyMap == [n \in {} |-> 0]
MapPut(m, k, v) == [n \in (DOMAIN m) \cup {k} |-> IF n = k THEN v ELSE m[n]]
MapErase(m, k) == [n \in (DOMAIN m) \ {k} |-> m[n]]

RECURSIVE FirstIn(_, _, _)
FirstIn(order, i, S) ==
    IF i > Len(order) THEN "" ELSE
    IF order[i] \in S THEN order[i] ELSE FirstIn(order, i + 1, S)

\* users.begin()->first : the least key; "" sorts before every other nick
MapBegin(m) == IF "" \in DOMAIN m THEN "" ELSE FirstIn(NickOrder, 1, DOMAIN m)

\* the keys of a map in iteration order
RECURSIVE KeysFrom(_, _, _)
KeysFrom(order, i, S) ==
    IF i > Len(order) THEN << >> ELSE
    IF order[i] \in S THEN <<order[i]>> \o KeysFrom(order, i + 1, S)
    ELSE KeysFrom(order, i + 1, S)

MapKeys(m) ==
    (IF "" \in DOMAIN m THEN <<"">> ELSE << >>) \o KeysFrom(NickOrder, 1, DOMAIN m)

SeqRemove(s, x) == SelectSeq(s, LAMBDA y : y # x)
SeqHas(s, x) == \E i \in 1..Len(s) : s[i] = x

\* std::vector<std::string> read only through find, remove and push_back: the
\* order of its elements is never observed, so it is kept as a bag
EmptyBag == [n \in {} |-> 0]
BagHas(b, x) == x \in DOMAIN b                              \* std::find
BagRemoveAll(b, x) == [n \in (DOMAIN b) \ {x} |-> b[n]]     \* erase(remove(...))
BagPush(b, x) ==                                            \* push_back
    [n \in (DOMAIN b) \cup {x} |->
        IF n = x THEN (IF x \in DOMAIN b THEN b[x] + 1 ELSE 1) ELSE b[n]]

----------------------------------------------------------------------------
(* Client record (Client.cpp) *)

NewClient ==
    [nick |-> "", user |-> "", pass |-> FALSE, registered |-> FALSE]

----------------------------------------------------------------------------
(* Channel record (Channel.cpp) *)

NoModes == [i |-> FALSE, t |-> FALSE, k |-> FALSE, o |-> FALSE, l |-> FALSE]

setMode(ch, c, setting) ==
    IF ch.modes[c] = setting THEN ch
    ELSE [ch EXCEPT !.modes = [ch.modes EXCEPT ![c] = setting]]

\* the return value of Channel::setMode
setModeChanged(ch, c, setting) == ch.modes[c] # setting

\* the constructor without users[nick] = client
NewChannel_NoUser(nick, fd) ==
    setMode([operators |-> MapPut(EmptyMap, nick, fd),
             users |-> EmptyMap,
             inviteList |-> EmptyMap,
             modes |-> NoModes,
             key |-> "",
             UserLimit |-> 0,
             topic |-> ""], "t", TRUE)

NewChannel(nick, fd) ==
    setMode([operators |-> MapPut(EmptyMap, nick, fd),
             users |-> MapPut(EmptyMap, nick, fd),
             inviteList |-> EmptyMap,
             modes |-> NoModes,
             key |-> "",
             UserLimit |-> 0,
             topic |-> ""], "t", TRUE)

isClientInChannel(ch, nick) == nick \in DOMAIN ch.users
\* the invite list never consulted
isInvited_Never(ch, nick) == FALSE
isInvited(ch, nick) == nick \in DOMAIN ch.inviteList
isOperator(ch, nick) == nick \in DOMAIN ch.operators
checkMode(ch, c) == ch.modes[c]

addClient(ch, nick, fd) ==
    LET c1 == [ch EXCEPT !.users = MapPut(ch.users, nick, fd)]
        c2 == IF isInvited(c1, nick)
              THEN [c1 EXCEPT !.inviteList = MapErase(c1.inviteList, nick)]
              ELSE c1
    IN  IF Cardinality(DOMAIN c2.operators) = 0
        THEN [c2 EXCEPT !.operators = MapPut(c2.operators, nick, fd)]
        ELSE c2

inviteClient(ch, nick, fd) ==
    [ch EXCEPT !.inviteList = MapPut(ch.inviteList, nick, fd)]

removeInvite(ch, nick) ==
    IF nick \in DOMAIN ch.inviteList
    THEN [ch EXCEPT !.inviteList = MapErase(ch.inviteList, nick)]
    ELSE ch

\* cl is the fd table: the operator is keyed by the client's own nickname
addOperator(ch, nick, cl) ==
    IF nick \in DOMAIN ch.users
    THEN setMode([ch EXCEPT !.operators =
                      MapPut(ch.operators, cl[ch.users[nick]].nick, ch.users[nick])],
                 "o", TRUE)
    ELSE ch

\* removeOperator without the refill of an emptied operators map
removeOperator_NoRefill(ch, nick) ==
    IF nick \in DOMAIN ch.operators
    THEN setMode([ch EXCEPT !.operators = MapErase(ch.operators, nick)], "o", FALSE)
    ELSE ch

removeOperator(ch, nick) ==
    LET c1 == IF nick \in DOMAIN ch.operators
              THEN setMode([ch EXCEPT !.operators = MapErase(ch.operators, nick)],
                           "o", FALSE)
              ELSE ch
    IN  IF DOMAIN c1.operators = {} /\ DOMAIN c1.users # {}
        THEN [c1 EXCEPT !.operators =
                  MapPut(c1.operators, MapBegin(c1.users), c1.users[MapBegin(c1.users)])]
        ELSE c1

removeClient(ch, nick) ==
    LET c1 == removeOperator(ch, nick)
    IN  IF nick \in DOMAIN c1.users
        THEN [c1 EXCEPT !.users = MapErase(c1.users, nick)]
        ELSE c1

setKey(ch, password) == setMode([ch EXCEPT !.key = password], "k", TRUE)
removeKey(ch) == setMode([ch EXCEPT !.key = ""], "k", FALSE)
setUserLimit(ch, limit) ==
    IF limit > 0 THEN setMode([ch EXCEPT !.UserLimit = limit], "l", TRUE) ELSE ch
removeUserLimit(ch) == setMode([ch EXCEPT !.UserLimit = 0 - 1], "l", FALSE)
\* the topic stored without setMode('t', true)
setTopic_KeepsModes(ch, topic) == [ch EXCEPT !.topic = topic]
setTopic(ch, topic) == setMode([ch EXCEPT !.topic = topic], "t", TRUE)

updateNickname(ch, oldNick, newNick) ==
    LET c1 == IF oldNick \in DOMAIN ch.users
              THEN [ch EXCEPT !.users =
                        MapPut(MapErase(ch.users, oldNick), newNick, ch.users[oldNick])]
              ELSE ch
        c2 == IF oldNick \in DOMAIN c1.operators
              THEN [c1 EXCEPT !.operators =
                        MapPut(MapErase(c1.operators, oldNick), newNick,
                               c1.operators[oldNick])]
              ELSE c1
    IN  IF oldNick \in DOMAIN c2.inviteList
        THEN [c2 EXCEPT !.inviteList =
                  MapPut(MapErase(c2.inviteList, oldNick), newNick,
                         c2.inviteList[oldNick])]
        ELSE c2

----------------------------------------------------------------------------
(* Server state as one value, so that a handler is a function of it *)

NoFrames == [fd \in Fds |-> << >>]

\* no fd gone through yet in this tick
NoEvents == [fd \in {} |-> {}]

St == [clients |-> clients, nicknames |-> nicknames, channels |-> channels,
       enq |-> NoFrames]

\* push_front for push_back
push_Front(S, fd, frame) == [S EXCEPT !.enq[fd] = <<frame>> \o @]
push(S, fd, frame) == [S EXCEPT !.enq[fd] = Append(@, frame)]

isChannelInServer(S, name) == name \in DOMAIN S.channels
isUserInServer(S, nick) == BagHas(S.nicknames, nick)

\* Server::getClient : the first client, in fd order, with that nickname; 0 is NULL
getClient(S, nick) ==
    LET hit == {fd \in DOMAIN S.clients : S.clients[fd].nick = nick}
    IN  IF hit = {} THEN 0 ELSE CHOOSE fd \in hit : \A g \in hit : fd <= g

setChannel(S, name, ch) ==
    [S EXCEPT !.channels = [n \in (DOMAIN S.channels) \cup {name} |->
                               IF n = name THEN ch ELSE S.channels[n]]]

eraseChannel(S, name) ==
    [S EXCEPT !.channels = [n \in (DOMAIN S.channels) \ {name} |-> S.channels[n]]]

RECURSIVE pushAll(_, _, _, _, _)
pushAll(S, m, ks, i, frame) ==
    IF i > Len(ks) THEN S
    ELSE pushAll(push(S, m[ks[i]], frame), m, ks, i + 1, frame)

\* Channel::broadcastMessage : Client::_fd is never -1, setFd is never called
broadcastMessage(S, name, frame) ==
    pushAll(S, S.channels[name].users, MapKeys(S.channels[name].users), 1, frame)

RECURSIVE pushOthers(_, _, _, _, _, _)
pushOthers(S, m, ks, i, fd, frame) ==
    IF i > Len(ks) THEN S
    ELSE pushOthers(IF m[ks[i]] # fd THEN push(S, m[ks[i]], frame) ELSE S,
                    m, ks, i + 1, fd, frame)

\* the sender not excluded
sendToOthers_All(S, name, fd, frame) == broadcastMessage(S, name, frame)

sendToOthers(S, name, fd, frame) ==
    pushOthers(S, S.channels[name].users, MapKeys(S.channels[name].users), 1, fd, frame)

\* every name accepted as a channel name
isChannelName_Any(name) == TRUE
\* name[0] is '#' or '&': the names of the model that start with one of them
isChannelName(name) == name \in ChanNames \cup {AmpChan}
hasNickSpecial(nick) == nick = BadNick             \* find_first_of("#@:&")
isAlphanumeric(str) == str # BadKey

\* std::atoi on the limit arguments the model feeds in
atoi(str) ==
    CASE str = "1" -> 1
      [] str = "2" -> 2
      [] str = "3" -> 3
      [] str = "-1" -> 0 - 1
      [] OTHER -> 0

----------------------------------------------------------------------------
(* NICK (nickCommand.cpp) *)

RECURSIVE nickChannels(_, _, _, _, _)
nickChannels(S, names, i, oldNick, newNick) ==
    IF i > Len(names) THEN S
    ELSE LET ch == S.channels[names[i]]
             S1 == IF isClientInChannel(ch, oldNick) \/ isInvited(ch, oldNick)
                   THEN setChannel(S, names[i], updateNickname(ch, oldNick, newNick))
                   ELSE S
         IN  nickChannels(S1, names, i + 1, oldNick, newNick)

\* the in-use test dropped
nickInUse_Never(S, newNick) == FALSE

\* _nicknames.empty() == false && std::find(...) != _nicknames.end()
nickInUse(S, newNick) == DOMAIN S.nicknames # {} /\ BagHas(S.nicknames, newNick)

\* the old nickname left in the index
nickRelease_KeepsOld(S, fd, oldNick, newNick) ==
    push(S, fd, <<"RPL_NICK", oldNick, newNick>>)

\* a client that had a nickname: the old one leaves the index, RPL_NICK is pushed
nickRelease(S, fd, oldNick, newNick) ==
    push([S EXCEPT !.nicknames = BagRemoveAll(S.nicknames, oldNick)],
         fd, <<"RPL_NICK", oldNick, newNick>>)

nickCommand(S, fd, params) ==
    IF Len(params) < 1 THEN push(S, fd, <<"ERR_NONICKNAMEGIVEN">>)
    ELSE
    LET newNick == params[1]
        oldNick == S.clients[fd].nick
    IN  IF hasNickSpecial(newNick)
        THEN push(S, fd, <<"ERR_ERRONEUSNICKNAME", newNick>>)
        ELSE IF nickInUse(S, newNick)
        THEN push(S, fd, <<"ERR_NICKNAMEINUSE", newNick>>)
        ELSE
        LET S1 == IF oldNick # "" THEN nickRelease(S, fd, oldNick, newNick) ELSE S
            S2 == [S1 EXCEPT !.nicknames = BagPush(S1.nicknames, newNick)]
            S3 == nickChannels(S2, KeysFrom(ChanOrder, 1, DOMAIN S2.channels), 1,
                               oldNick, newNick)
        IN  [S3 EXCEPT !.clients[fd].nick = newNick]

----------------------------------------------------------------------------
(* JOIN (join.cpp) *)

greetJoinedUser(S, fd, name) == <<"RPL_JOIN", S.clients[fd].nick, name, "greeting">>

\* the limit test with > for >=
limitReached_Above(ch) == Cardinality(DOMAIN ch.users) > ch.UserLimit

\* static_cast<int>(getUsers().size()) >= getUserLimit()
limitReached(ch) == Cardinality(DOMAIN ch.users) >= ch.UserLimit
\* the admission checks with the invite-only test ahead of the limit test
joinRefusal_InviteBeforeLimit(S, fd, name, keys, ki) ==
    LET ch == S.channels[name]
        nick == S.clients[fd].nick
    IN  IF isClientInChannel(ch, nick)
        THEN <<"ERR_USERONCHANNEL", nick, name>>
        ELSE IF checkMode(ch, "i") /\ ~isInvited(ch, nick)
        THEN <<"ERR_INVITEONLYCHAN", nick, name>>
        ELSE IF ~isInvited(ch, nick) /\ checkMode(ch, "l") /\ limitReached(ch)
        THEN <<"ERR_CHANNELISFULL", nick, name>>
        ELSE IF checkMode(ch, "k") /\ ~(ki <= Len(keys) /\ keys[ki] = ch.key)
        THEN <<"ERR_BADCHANNELKEY", nick, name>>
        ELSE << >>

\* the admission checks without the membership test
joinRefusal_NoMemberTest(S, fd, name, keys, ki) ==
    LET ch == S.channels[name]
        nick == S.clients[fd].nick
    IN  IF ~isInvited(ch, nick) /\ checkMode(ch, "l") /\ limitReached(ch)
        THEN <<"ERR_CHANNELISFULL", nick, name>>
        ELSE IF checkMode(ch, "i") /\ ~isInvited(ch, nick)
        THEN <<"ERR_INVITEONLYCHAN", nick, name>>
        ELSE IF checkMode(ch, "k") /\ ~(ki <= Len(keys) /\ keys[ki] = ch.key)
        THEN <<"ERR_BADCHANNELKEY", nick, name>>
        ELSE << >>

\* the reply of the first admission check that fails on an existing channel, or << >>
joinRefusal(S, fd, name, keys, ki) ==
    LET ch == S.channels[name]
        nick == S.clients[fd].nick
    IN  IF isClientInChannel(ch, nick)
        THEN <<"ERR_USERONCHANNEL", nick, name>>
        ELSE IF ~isInvited(ch, nick) /\ checkMode(ch, "l") /\ limitReached(ch)
        THEN <<"ERR_CHANNELISFULL", nick, name>>
        ELSE IF checkMode(ch, "i") /\ ~isInvited(ch, nick)
        THEN <<"ERR_INVITEONLYCHAN", nick, name>>
        ELSE IF checkMode(ch, "k") /\ ~(ki <= Len(keys) /\ keys[ki] = ch.key)
        THEN <<"ERR_BADCHANNELKEY", nick, name>>
        ELSE << >>

joinExisting(S, fd, name, keys, ki) ==
    LET nick == S.clients[fd].nick
        response == joinRefusal(S, fd, name, keys, ki)
    IN  IF response = << >>
        THEN LET S1 == setChannel(S, name, removeInvite(S.channels[name], nick))
                 S2 == broadcastMessage(S1, name, <<"RPL_JOIN", nick, name>>)
                 S3 == setChannel(S2, name, addClient(S2.channels[name], nick, fd))
             IN  push(S3, fd, greetJoinedUser(S3, fd, name))
        ELSE push(S, fd, response)

RECURSIVE joinLoop(_, _, _, _, _, _)
joinLoop(S, fd, chans, i, keys, ki) ==
    IF i > Len(chans) THEN S
    ELSE IF ~isChannelName(chans[i]) THEN joinLoop(S, fd, chans, i + 1, keys, ki)
    ELSE IF isChannelInServer(S, chans[i])
    THEN joinExisting(S, fd, chans[i], keys, ki)          \* then break
    ELSE LET S1 == setChannel(S, chans[i], NewChannel(S.clients[fd].nick, fd))
         IN  joinLoop(push(S1, fd, greetJoinedUser(S1, fd, chans[i])),
                      fd, chans, i + 1, keys, ki)

\* chans and keys are params[0] and params[1] after ft_split; nparams is params.size()
joinCommand(S, fd, nparams, chans, keys) ==
    IF nparams > 2 THEN S
    ELSE IF nparams < 1
    THEN push(S, fd, <<"ERR_NEEDMOREPARAMS", S.clients[fd].nick, "JOIN">>)
    ELSE joinLoop(S, fd, chans, 1, keys, 1)

----------------------------------------------------------------------------
(* KICK (kick.cpp) *)

RECURSIVE kickLoop(_, _, _, _, _)

\* the loop without the test for the sender's own nick
kickLoop_NoSelfTest(S, fd, name, targets, i) ==
    IF i > Len(targets) THEN S
    ELSE IF ~isChannelInServer(S, name) THEN S
    ELSE
    LET nick == S.clients[fd].nick
        targetNick == targets[i]
        targetClient == getClient(S, targetNick)
    IN  IF targetClient = 0 \/ ~isClientInChannel(S.channels[name], targetNick)
        THEN kickLoop(push(S, fd, <<"ERR_USERNOTINCHANNEL", nick, targetNick, name>>),
                      fd, name, targets, i + 1)
        ELSE
        LET S1 == broadcastMessage(S, name,
                      <<"RPL_KICK", nick, name, S.clients[targetClient].nick>>)
            S2 == setChannel(S1, name,
                      removeClient(S1.channels[name], S1.clients[targetClient].nick))
            S3 == IF DOMAIN S2.channels[name].users = {}
                  THEN eraseChannel(S2, name) ELSE S2
        IN  kickLoop(S3, fd, name, targets, i + 1)

\* the loop that stops at a self-kick instead of going on to the next target
kickLoop_SelfKickStops(S, fd, name, targets, i) ==
    IF i > Len(targets) THEN S
    ELSE IF ~isChannelInServer(S, name) THEN S
    ELSE
    LET nick == S.clients[fd].nick
        targetNick == targets[i]
        targetClient == getClient(S, targetNick)
    IN  IF targetNick = nick
        THEN push(S, fd, <<"482", nick, name, "You can't kick yourself">>)
        ELSE IF targetClient = 0 \/ ~isClientInChannel(S.channels[name], targetNick)
        THEN kickLoop(push(S, fd, <<"ERR_USERNOTINCHANNEL", nick, targetNick, name>>),
                      fd, name, targets, i + 1)
        ELSE
        LET S1 == broadcastMessage(S, name,
                      <<"RPL_KICK", nick, name, S.clients[targetClient].nick>>)
            S2 == setChannel(S1, name,
                      removeClient(S1.channels[name], S1.clients[targetClient].nick))
            S3 == IF DOMAIN S2.channels[name].users = {}
                  THEN eraseChannel(S2, name) ELSE S2
        IN  kickLoop(S3, fd, name, targets, i + 1)

kickLoop(S, fd, name, targets, i) ==
    IF i > Len(targets) THEN S
    ELSE IF ~isChannelInServer(S, name) THEN S   \* the channel was erased in the loop
    ELSE
    LET nick == S.clients[fd].nick
        targetNick == targets[i]
        targetClient == getClient(S, targetNick)
    IN  IF targetNick = nick
        THEN kickLoop(push(S, fd, <<"482", nick, name, "You can't kick yourself">>),
                      fd, name, targets, i + 1)
        ELSE IF targetClient = 0 \/ ~isClientInChannel(S.channels[name], targetNick)
        THEN kickLoop(push(S, fd, <<"ERR_USERNOTINCHANNEL", nick, targetNick, name>>),
                      fd, name, targets, i + 1)
        ELSE
        LET S1 == broadcastMessage(S, name,
                      <<"RPL_KICK", nick, name, S.clients[targetClient].nick>>)
            S2 == setChannel(S1, name,
                      removeClient(S1.channels[name], S1.clients[targetClient].nick))
            S3 == IF DOMAIN S2.channels[name].users = {}
                  THEN eraseChannel(S2, name) ELSE S2
        IN  kickLoop(S3, fd, name, targets, i + 1)

\* the command without the operator test
handelKickCommand_NoOperatorTest(S, fd, params, targets) ==
    LET nick == S.clients[fd].nick IN
    IF Len(params) < 2
    THEN push(S, fd, <<"ERR_NEEDMOREPARAMS", nick, "KICK">>)
    ELSE IF ~isChannelInServer(S, params[1])
    THEN push(S, fd, <<"ERR_NOSUCHCHANNEL", nick, params[1]>>)
    ELSE IF ~isClientInChannel(S.channels[params[1]], nick)
    THEN push(S, fd, <<"ERR_NOTONCHANNEL", nick, params[1]>>)
    ELSE kickLoop(S, fd, params[1], targets, 1)

\* params is <<channel>> or <<channel, targets>>; targets is params[1] after ft_split
handelKickCommand(S, fd, params, targets) ==
    LET nick == S.clients[fd].nick IN
    IF Len(params) < 2
    THEN push(S, fd, <<"ERR_NEEDMOREPARAMS", nick, "KICK">>)
    ELSE IF ~isChannelInServer(S, params[1])
    THEN push(S, fd, <<"ERR_NOSUCHCHANNEL", nick, params[1]>>)
    ELSE IF ~isClientInChannel(S.channels[params[1]], nick)
    THEN push(S, fd, <<"ERR_NOTONCHANNEL", nick, params[1]>>)
    ELSE IF ~isOperator(S.channels[params[1]], nick)
    THEN push(S, fd, <<"ERR_CHANOPRIVSNEEDED", nick, params[1]>>)
    ELSE kickLoop(S, fd, params[1], targets, 1)

----------------------------------------------------------------------------
(* MODE (modeCommand.cpp).  A mode handler returns the new server state, the  *)
(* new paramIndex and its boolean result.                                     *)

ModeResult(S, idx, ok) == [S |-> S, idx |-> idx, ok |-> ok]
\* the handler without the test of the key's characters
handleKeyMode_AnyKey(S, fd, name, isAdding, params, idx) ==
    LET ch == S.channels[name]
        nick == S.clients[fd].nick
    IN  IF isAdding = ch.modes["k"] THEN ModeResult(S, idx, FALSE)
        ELSE IF isAdding /\ idx <= Len(params)
        THEN ModeResult(
                 push(setChannel(S, name, setKey(ch, params[idx])),
                      fd, <<"RPL_CHANNELMODEISWITHKEY", nick, name>>),
                 idx + 1, TRUE)
        ELSE IF isAdding
        THEN ModeResult(push(S, fd, <<"ERR_NEEDMOREPARAMS", nick, "MODE +k">>), idx, FALSE)
        ELSE ModeResult(setChannel(S, name, removeKey(ch)), idx, TRUE)

handleKeyMode(S, fd, name, isAdding, params, idx) ==
    LET ch == S.channels[name]
        nick == S.clients[fd].nick
    IN  IF isAdding = ch.modes["k"] THEN ModeResult(S, idx, FALSE)
        ELSE IF isAdding /\ idx <= Len(params)
        THEN IF isAlphanumeric(params[idx])
             THEN ModeResult(
                      push(setChannel(S, name, setKey(ch, params[idx])),
                           fd, <<"RPL_CHANNELMODEISWITHKEY", nick, name>>),
                      idx + 1, TRUE)
             ELSE ModeResult(
                      push(S, fd, <<"ERR_INVALIDMODEPARAM", nick, name, "k", params[idx]>>),
                      idx + 1, FALSE)
        ELSE IF isAdding
        THEN ModeResult(push(S, fd, <<"ERR_NEEDMOREPARAMS", nick, "MODE +k">>), idx, FALSE)
        ELSE ModeResult(setChannel(S, name, removeKey(ch)), idx, TRUE)

handleLimitMode(S, fd, name, isAdding, params, idx) ==
    LET ch == S.channels[name]
        nick == S.clients[fd].nick
    IN  IF isAdding = ch.modes["l"] THEN ModeResult(S, idx, FALSE)
        ELSE IF isAdding /\ idx <= Len(params)
        THEN IF atoi(params[idx]) > 0
             THEN ModeResult(
                      push(setChannel(S, name, setUserLimit(ch, atoi(params[idx]))),
                           fd, <<"RPL_CHANNELMODEISWITHKEY", nick, name>>),
                      idx + 1, TRUE)
             ELSE ModeResult(
                      push(S, fd, <<"ERR_INVALIDMODEPARAM", nick, name, "l", params[idx]>>),
                      idx + 1, FALSE)
        ELSE IF isAdding
        THEN ModeResult(push(S, fd, <<"ERR_NEEDMOREPARAMS", nick, "MODE +l">>), idx, FALSE)
        ELSE ModeResult(setChannel(S, name, removeUserLimit(ch)), idx, TRUE)
\* the handler without the test of flag o against the sign
handleOperatorMode_NoFlagGuard(S, fd, name, isAdding, params, idx) ==
    LET ch == S.channels[name]
        nick == S.clients[fd].nick
    IN  IF idx <= Len(params)
        THEN IF ~isClientInChannel(ch, params[idx])
             THEN ModeResult(
                      push(S, fd, <<"ERR_USERNOTINCHANNEL", nick, params[idx], name>>),
                      idx + 1, FALSE)
             ELSE ModeResult(
                      setChannel(S, name,
                          IF isAdding THEN addOperator(ch, params[idx], S.clients)
                          ELSE removeOperator(ch, params[idx])),
                      idx + 1, TRUE)
        ELSE ModeResult(push(S, fd, <<"ERR_NEEDMOREPARAMS", nick, "MODE o">>), idx, FALSE)

handleOperatorMode(S, fd, name, isAdding, params, idx) ==
    LET ch == S.channels[name]
        nick == S.clients[fd].nick
    IN  IF isAdding = ch.modes["o"] THEN ModeResult(S, idx, FALSE)
        ELSE IF idx <= Len(params)
        THEN IF ~isClientInChannel(ch, params[idx])
             THEN ModeResult(
                      push(S, fd, <<"ERR_USERNOTINCHANNEL", nick, params[idx], name>>),
                      idx + 1, FALSE)
             ELSE ModeResult(
                      setChannel(S, name,
                          IF isAdding THEN addOperator(ch, params[idx], S.clients)
                          ELSE removeOperator(ch, params[idx])),
                      idx + 1, TRUE)
        ELSE ModeResult(push(S, fd, <<"ERR_NEEDMOREPARAMS", nick, "MODE o">>), idx, FALSE)

processSingleChannelMode(S, fd, name, mode, isAdding, params, idx) ==
    CASE mode = "i" ->
           ModeResult(setChannel(S, name, setMode(S.channels[name], "i", isAdding)),
                      idx, setModeChanged(S.channels[name], "i", isAdding))
      [] mode = "k" -> handleKeyMode(S, fd, name, isAdding, params, idx)
      [] mode = "l" -> handleLimitMode(S, fd, name, isAdding, params, idx)
      [] mode = "t" ->
           ModeResult(setChannel(S, name, setMode(S.channels[name], "t", isAdding)),
                      idx, setModeChanged(S.channels[name], "t", isAdding))
      [] mode = "o" -> handleOperatorMode(S, fd, name, isAdding, params, idx)
      [] mode = "b" -> ModeResult(S, idx, FALSE)
      [] OTHER ->
           ModeResult(push(S, fd, <<"ERR_UNKNOWNMODE", S.clients[fd].nick, mode>>),
                      idx, FALSE)

\* modeString is params[1] as a sequence of characters; modeStr collects the
\* signed letters of the changes that returned true
RECURSIVE modeLoop(_, _, _, _, _, _, _, _, _)
modeLoop(S, fd, name, modeString, i, isAdding, params, idx, modeStr) ==
    IF i > Len(modeString)
    THEN IF modeStr # << >>
         THEN broadcastMessage(S, name, <<"MODE", S.clients[fd].nick, name>> \o modeStr)
         ELSE S
    ELSE IF modeString[i] = "+" \/ modeString[i] = "-"
    THEN modeLoop(S, fd, name, modeString, i + 1, modeString[i] = "+", params, idx, modeStr)
    ELSE LET r == processSingleChannelMode(S, fd, name, modeString[i], isAdding,
                                           params, idx)
         IN  modeLoop(r.S, fd, name, modeString, i + 1, isAdding, params, r.idx,
                      IF r.ok
                      THEN Append(modeStr, (IF isAdding THEN "+" ELSE "-"))
                           \o <<modeString[i]>>
                      ELSE modeStr)

\* params[1] is the channel, params[2] stands for the modestring, the mode
\* arguments start at params[3] (paramIndex = 2 in the source)
processChannelModes(S, fd, name, modeString, params) ==
    modeLoop(S, fd, name, modeString, 1, TRUE, params, 3, << >>)

\* the handler without the operator test
handleChannelMode_NoOperatorTest(S, fd, name, modeString, params) ==
    LET nick == S.clients[fd].nick IN
    IF ~isChannelInServer(S, name)
    THEN push(S, fd, <<"ERR_NOSUCHCHANNEL", nick, name>>)
    ELSE IF Len(params) = 1
    THEN push(S, fd, <<"RPL_CHANNELMODEIS", nick, name>>)
    ELSE processChannelModes(S, fd, name, modeString, params)

handleChannelMode(S, fd, name, modeString, params) ==
    LET nick == S.clients[fd].nick IN
    IF ~isChannelInServer(S, name)
    THEN push(S, fd, <<"ERR_NOSUCHCHANNEL", nick, name>>)
    ELSE IF Len(params) = 1
    THEN push(S, fd, <<"RPL_CHANNELMODEIS", nick, name>>)
    ELSE IF ~isOperator(S.channels[name], nick)
    THEN push(S, fd, <<"ERR_CHANOPRIVSNEEDED", nick, name>>)
    ELSE processChannelModes(S, fd, name, modeString, params)

handelModeCommand(S, fd, modeString, params) ==
    IF Len(params) < 1
    THEN push(S, fd, <<"ERR_NEEDMOREPARAMS", S.clients[fd].nick, "MODE">>)
    ELSE IF isChannelName(params[1])
    THEN handleChannelMode(S, fd, params[1], modeString, params)
    ELSE IF ~isUserInServer(S, params[1])
    THEN push(S, fd, <<"ERR_NOSUCHCHANNEL", S.clients[fd].nick, params[1]>>)
    ELSE S

----------------------------------------------------------------------------
(* TOPIC (topicCommand.cpp).  trailing is ParsedMsg.getTrailing(), "" when *)
(* the line has none.                                                       *)
\* the command without the query branch: an empty trailing is a new topic
topicCommand_EmptyClears(S, fd, params, trailing) ==
    LET nick == S.clients[fd].nick IN
    IF Len(params) < 1
    THEN push(S, fd, <<"ERR_NEEDMOREPARAMS", nick, "TOPIC">>)
    ELSE IF ~isChannelName(params[1]) THEN S
    ELSE IF ~isChannelInServer(S, params[1])
    THEN push(S, fd, <<"ERR_NOSUCHCHANNEL", nick, params[1]>>)
    ELSE IF ~isClientInChannel(S.channels[params[1]], nick)
    THEN push(S, fd, <<"ERR_NOTONCHANNEL", nick, params[1]>>)
    ELSE IF checkMode(S.channels[params[1]], "t")
            /\ ~isOperator(S.channels[params[1]], nick)
    THEN push(S, fd, <<"ERR_CHANOPRIVSNEEDED", nick, params[1]>>)
    ELSE broadcastMessage(
             setChannel(S, params[1], setTopic(S.channels[params[1]], trailing)),
             params[1], <<"RPL_CHANGETOPIC", nick, params[1], trailing>>)

\* the handler without the test of mode t and the operators map
topicCommand_NoOperatorTest(S, fd, params, trailing) ==
    LET nick == S.clients[fd].nick IN
    IF Len(params) < 1
    THEN push(S, fd, <<"ERR_NEEDMOREPARAMS", nick, "TOPIC">>)
    ELSE IF ~isChannelName(params[1]) THEN S
    ELSE IF ~isChannelInServer(S, params[1])
    THEN push(S, fd, <<"ERR_NOSUCHCHANNEL", nick, params[1]>>)
    ELSE IF ~isClientInChannel(S.channels[params[1]], nick)
    THEN push(S, fd, <<"ERR_NOTONCHANNEL", nick, params[1]>>)
    ELSE IF trailing = ""
    THEN IF S.channels[params[1]].topic = ""
         THEN push(S, fd, <<"RPL_NOTOPIC", nick, params[1]>>)
         ELSE push(S, fd, <<"RPL_TOPIC", nick, params[1], S.channels[params[1]].topic>>)
    ELSE broadcastMessage(
             setChannel(S, params[1], setTopic(S.channels[params[1]], trailing)),
             params[1], <<"RPL_CHANGETOPIC", nick, params[1], trailing>>)

topicCommand(S, fd, params, trailing) ==
    LET nick == S.clients[fd].nick IN
    IF Len(params) < 1
    THEN push(S, fd, <<"ERR_NEEDMOREPARAMS", nick, "TOPIC">>)
    ELSE IF ~isChannelName(params[1]) THEN S
    ELSE IF ~isChannelInServer(S, params[1])
    THEN push(S, fd, <<"ERR_NOSUCHCHANNEL", nick, params[1]>>)
    ELSE IF ~isClientInChannel(S.channels[params[1]], nick)
    THEN push(S, fd, <<"ERR_NOTONCHANNEL", nick, params[1]>>)
    ELSE IF trailing = ""
    THEN IF S.channels[params[1]].topic = ""
         THEN push(S, fd, <<"RPL_NOTOPIC", nick, params[1]>>)
         ELSE push(S, fd, <<"RPL_TOPIC", nick, params[1], S.channels[params[1]].topic>>)
    ELSE IF checkMode(S.channels[params[1]], "t")
            /\ ~isOperator(S.channels[params[1]], nick)
    THEN push(S, fd, <<"ERR_CHANOPRIVSNEEDED", nick, params[1]>>)
    ELSE broadcastMessage(
             setChannel(S, params[1], setTopic(S.channels[params[1]], trailing)),
             params[1], <<"RPL_CHANGETOPIC", nick, params[1], trailing>>)

----------------------------------------------------------------------------
(* PRIVMSG (privateMessage.cpp) *)

\* getClient finds a client for every nickname of the index (no client record
\* is ever deleted), so recipientClient is never NULL at line 59
privateMessage(S, fd, params, trailing) ==
    LET nick == S.clients[fd].nick IN
    IF Len(params) < 1 THEN push(S, fd, <<"ERR_NORECIPIENT", nick>>)
    ELSE IF trailing = "" THEN push(S, fd, <<"ERR_NOTEXTTOSEND", nick>>)
    ELSE IF isChannelName(params[1])
    THEN IF ~isChannelInServer(S, params[1])
         THEN push(S, fd, <<"ERR_CANNOTSENDTOCHAN", nick, params[1]>>)
         ELSE IF ~isClientInChannel(S.channels[params[1]], nick)
         THEN push(S, fd, <<"ERR_CANNOTSENDTOCHAN", nick, params[1]>>)
         ELSE sendToOthers(S, params[1], fd, <<"RPL_PRIVMSG", nick, params[1], trailing>>)
    ELSE IF ~isUserInServer(S, params[1])
    THEN push(S, fd, <<"ERR_NOSUCHNICK", nick, params[1]>>)
    ELSE push(S, getClient(S, params[1]), <<"RPL_PRIVMSG", nick, params[1], trailing>>)

----------------------------------------------------------------------------
(* Lines and messages (Server.cpp, ParseMessage.cpp).  A std::string is a    *)
(* sequence of one-character strings.                                        *)

WhiteSpace == {" ", "\n", "\r", "\t"}      \* " \n\r\t", what operator>> skips too

\* std::string::find(c) as a 1-based index, 0 for npos
RECURSIVE findChar(_, _, _)
findChar(str, c, i) ==
    IF i > Len(str) THEN 0
    ELSE IF str[i] = c THEN i ELSE findChar(str, c, i + 1)

\* std::string::find(token) as a 1-based index, 0 for npos
RECURSIVE find(_, _, _)
find(str, token, i) ==
    IF i + Len(token) - 1 > Len(str) THEN 0
    ELSE IF SubSeq(str, i, i + Len(token) - 1) = token THEN i
    ELSE find(str, token, i + 1)

Client_appendToBuffer(buf, data) == buf \o data

\* the loop that clears the buffer once no newline is left in it
RECURSIVE drainLines_DropsTail(_)
drainLines_DropsTail(buf) ==
    LET pos == findChar(buf, "\n", 1) IN
    IF pos = 0 THEN [lines |-> << >>, rest |-> << >>]
    ELSE LET r == drainLines_DropsTail(SubSeq(buf, pos + 1, Len(buf)))
         IN  [lines |-> <<SubSeq(buf, 1, pos)>> \o r.lines, rest |-> r.rest]

\* the while loop of handleClientMessage: the complete commands, each with
\* its newline, and what stays in the buffer
RECURSIVE drainLines(_)
drainLines(buf) ==
    LET pos == findChar(buf, "\n", 1) IN
    IF pos = 0 THEN [lines |-> << >>, rest |-> buf]
    ELSE LET r == drainLines(SubSeq(buf, pos + 1, Len(buf)))
         IN  [lines |-> <<SubSeq(buf, 1, pos)>> \o r.lines, rest |-> r.rest]

RECURSIVE find_first_not_of(_, _)
find_first_not_of(str, i) ==
    IF i > Len(str) THEN 0
    ELSE IF str[i] \notin WhiteSpace THEN i ELSE find_first_not_of(str, i + 1)

RECURSIVE find_last_not_of(_, _)
find_last_not_of(str, i) ==
    IF i < 1 THEN 0
    ELSE IF str[i] \notin WhiteSpace THEN i ELSE find_last_not_of(str, i - 1)

ft_trim(str) ==
    LET start == find_first_not_of(str, 1)
        end == find_last_not_of(str, Len(str))
    IN  IF start = 0 \/ end = 0 THEN << >> ELSE SubSeq(str, start, end)

\* iss >> token until the stream is exhausted: the whitespace-separated words
RECURSIVE tokens(_, _, _)
tokens(str, i, word) ==
    IF i > Len(str) THEN (IF word = << >> THEN << >> ELSE <<word>>)
    ELSE IF str[i] \in WhiteSpace
    THEN (IF word = << >> THEN << >> ELSE <<word>>) \o tokens(str, i + 1, << >>)
    ELSE tokens(str, i + 1, Append(word, str[i]))

\* ParseMessage::isValid : none of "\n\r\t:"
isValid(param) == \A i \in 1..Len(param) : param[i] \notin {"\n", "\r", "\t", ":"}

NoMessage(message) ==
    [msg |-> message, cmd |-> << >>, params |-> << >>, trailing |-> << >>,
     notValidParam |-> FALSE]

\* the while (iss >> token) loop of the constructor
RECURSIVE parseLoop(_, _, _, _, _, _)
parseLoop(message, toks, i, tagFlag, tagCmd, P) ==
    IF i > Len(toks) THEN P
    ELSE LET token == toks[i] IN
         IF tagFlag
         THEN IF token[1] = ":"
              THEN parseLoop(message, toks, i + 1, FALSE, FALSE,
                             [P EXCEPT !.cmd = Tail(token)])
              ELSE parseLoop(message, toks, i + 1, tagFlag, tagCmd, P)
         ELSE IF tagCmd
         THEN parseLoop(message, toks, i + 1, tagFlag, FALSE, [P EXCEPT !.cmd = token])
         ELSE IF token[1] = ":"
         THEN [P EXCEPT !.trailing =
                   ft_trim(SubSeq(message, find(message, token, 1) + 1, Len(message)))]
         ELSE IF isValid(token)
         THEN parseLoop(message, toks, i + 1, tagFlag, tagCmd,
                        [P EXCEPT !.params = Append(@, token)])
         ELSE [P EXCEPT !.notValidParam = TRUE]

\* ParseMessage::ParseMessage(message); the message handleClientMessage passes
\* holds its newline and is never empty
ParseMessage(message) ==
    LET trimmedMsg == ft_trim(message)
    IN  parseLoop(message, tokens(trimmedMsg, 1, << >>), 1,
                  trimmedMsg # << >> /\ trimmedMsg[1] = "@", TRUE, NoMessage(message))

----------------------------------------------------------------------------
(* Handlers whose source is not among the files modelled above: PASS, USER, *)
(* the registration step, PART and INVITE, and the dispatcher's gate.       *)

passCommand(S, fd, ok) ==
    IF S.clients[fd].registered THEN push(S, fd, <<"ERR_ALREADYREGISTERED">>)
    ELSE [S EXCEPT !.clients[fd].pass = ok]

userCommand(S, fd, user) ==
    IF S.clients[fd].registered THEN push(S, fd, <<"ERR_ALREADYREGISTERED">>)
    ELSE [S EXCEPT !.clients[fd].user = user]

\* registered becomes true once the password is accepted and nick and user are set
registerClient(S, fd) ==
    LET c == S.clients[fd] IN
    IF ~c.registered /\ c.pass /\ c.nick # "" /\ c.user # ""
    THEN push([S EXCEPT !.clients[fd].registered = TRUE], fd, <<"RPL_WELCOME", c.nick>>)
    ELSE S

\* every command executed whether the client is registered or not
gate_Open(S, fd, handled) == handled

\* before registration only PASS, NICK, USER, CAP and QUIT are executed
gate(S, fd, handled) ==
    IF S.clients[fd].registered THEN handled
    ELSE push(S, fd, <<"ERR_NOTREGISTERED">>)

partCommand(S, fd, name) ==
    LET nick == S.clients[fd].nick IN
    IF ~isChannelInServer(S, name)
    THEN push(S, fd, <<"ERR_NOSUCHCHANNEL", nick, name>>)
    ELSE IF ~isClientInChannel(S.channels[name], nick)
    THEN push(S, fd, <<"ERR_NOTONCHANNEL", nick, name>>)
    ELSE LET S1 == broadcastMessage(S, name, <<"PART", nick, name>>)
             S2 == setChannel(S1, name, removeClient(S1.channels[name], nick))
         IN  IF DOMAIN S2.channels[name].users = {} THEN eraseChannel(S2, name) ELSE S2

inviteCommand(S, fd, targetNick, name) ==
    LET nick == S.clients[fd].nick
        target == getClient(S, targetNick)
    IN  IF ~isChannelInServer(S, name)
        THEN push(S, fd, <<"ERR_NOSUCHCHANNEL", nick, name>>)
        ELSE IF ~isClientInChannel(S.channels[name], nick)
        THEN push(S, fd, <<"ERR_NOTONCHANNEL", nick, name>>)
        ELSE IF target = 0
        THEN push(S, fd, <<"ERR_NOSUCHNICK", nick, targetNick>>)
        ELSE IF isClientInChannel(S.channels[name], targetNick)
        THEN push(S, fd, <<"ERR_USERONCHANNEL", nick, targetNick, name>>)
        ELSE push(setChannel(S, name, inviteClient(S.channels[name], targetNick, target)),
                  target, <<"INVITE", nick, targetNick, name>>)

\* the dispatcher: the handler of the message's command, behind the gate; NICK
\* is executed before registration too; a message without a command is
\* ignored, an unknown command gets one numeric reply.  A channel list, a key
\* list or a target list holds one item.
processCommand(S, fd, msg) ==
    LET params == msg.params
        second == IF Len(params) >= 2 THEN <<params[2]>> ELSE << >>
    IN  CASE msg.cmd = "" -> S
          [] msg.cmd = "NICK" -> registerClient(nickCommand(S, fd, params), fd)
          [] msg.cmd = "JOIN" ->
               gate(S, fd, joinCommand(S, fd, Len(params),
                                       IF Len(params) >= 1 THEN <<params[1]>> ELSE << >>,
                                       second))
          [] msg.cmd = "PART" /\ Len(params) >= 1 -> gate(S, fd, partCommand(S, fd, params[1]))
          [] msg.cmd = "PRIVMSG" -> gate(S, fd, privateMessage(S, fd, params, msg.trailing))
          [] msg.cmd = "TOPIC" -> gate(S, fd, topicCommand(S, fd, params, msg.trailing))
          [] msg.cmd = "KICK" -> gate(S, fd, handelKickCommand(S, fd, params, second))
          [] OTHER ->
               gate(S, fd, push(S, fd, <<"ERR_UNKNOWNCOMMAND", S.clients[fd].nick>>))

\* the loop of handleClientMessage over the complete commands of one read
RECURSIVE processCommands(_, _, _, _)
processCommands(S, fd, msgs, i) ==
    IF i > Len(msgs) THEN S
    ELSE processCommands(processCommand(S, fd, msgs[i]), fd, msgs, i + 1)

\* the name the dispatcher sees for a command spelled with the bytes of the
\* model: none of them spells a command of the server
commandName(msg) ==
    [cmd |-> IF msg.cmd = << >> THEN "" ELSE "unknown", params |-> << >>, trailing |-> ""]

----------------------------------------------------------------------------
(* Connections (Server.cpp) *)

\* handleClientDisconnection : the first poll entry of that fd is marked -1
handleClientDisconnection(pfds, fd) ==
    LET hit == {i \in 1..Len(pfds) : pfds[i] = fd}
        first == IF hit = {} THEN 0 ELSE CHOOSE i \in hit : \A j \in hit : i <= j
    IN  [i \in 1..Len(pfds) |-> IF i = first THEN 0 - 1 ELSE pfds[i]]

\* closeClient(client_fd) : what it does to the fd table, the closed sockets and
\* the poll set
closeClientTable(cl, client_fd) ==
    [f \in (DOMAIN cl) \ {client_fd} |-> cl[f]]
closeClientClosed(cl, cls, client_fd) ==
    IF client_fd \in DOMAIN cl THEN cls \cup {client_fd} ELSE cls
closeClientPoll(pfds, client_fd) == SeqRemove(pfds, client_fd)

\* the argument runServer passes to closeClient: it->fd of an entry that is -1
reapArgument(fd) == 0 - 1

----------------------------------------------------------------------------
(* Actions: one accepted connection, one failed read, or one line dispatched. *)
(* obs tells whether the frames the handler pushed are kept in enq for the    *)
(* properties to read; otherwise they count as flushed before the next line.  *)

Apply(R, obs) ==
    /\ clients' = R.clients
    /\ nicknames' = R.nicknames
    /\ channels' = R.channels
    /\ enq' = IF obs THEN R.enq ELSE NoFrames

SendVars == <<serverReplies, wire, pushed, fails>>
RecvVars == <<buffer, received, dispatched>>
LoopVars == <<signalInterrupt, loop, revents>>

Polled(fd) == SeqHas(fds, fd)

\* the socket accept() returns
acceptedSocket == Cardinality(DOMAIN clients) + 1

\* handleNewConnection after a successful accept: the Client record and the
\* poll entry
handleNewConnection ==
    /\ Cardinality(DOMAIN clients) < MaxClients
    /\ clients' = [f \in (DOMAIN clients) \cup {acceptedSocket} |->
                       IF f = acceptedSocket THEN NewClient ELSE clients[f]]
    /\ fds' = Append(fds, acceptedSocket)
    /\ enq' = NoFrames
    /\ UNCHANGED <<nicknames, channels, closed, SendVars, RecvVars>>

\* a tick in which poll reports a pending connection and accept succeeds
Connect ==
    /\ handleNewConnection
    /\ UNCHANGED LoopVars

\* handleClientMessage when recv returns 0 or -1, and the reaping in runServer
Disconnect(fd) ==
    /\ Polled(fd)
    /\ LET marked == handleClientDisconnection(fds, fd)
           arg == reapArgument(fd)
       IN  /\ closed' = closeClientClosed(clients, closed, arg)
           /\ clients' = closeClientTable(clients, arg)
           /\ fds' = closeClientPoll(marked, arg)
    /\ enq' = NoFrames
    /\ UNCHANGED <<nicknames, channels, SendVars, RecvVars, LoopVars>>

Pass(fd, ok, obs) ==
    /\ Polled(fd)
    /\ Apply(registerClient(passCommand(St, fd, ok), fd), obs)
    /\ UNCHANGED <<fds, closed, SendVars, RecvVars, LoopVars>>

User(fd, obs) ==
    /\ Polled(fd)
    /\ Apply(registerClient(userCommand(St, fd, "u"), fd), obs)
    /\ UNCHANGED <<fds, closed, SendVars, RecvVars, LoopVars>>

Nick(fd, params, obs) ==
    /\ Polled(fd)
    /\ Apply(registerClient(nickCommand(St, fd, params), fd), obs)
    /\ UNCHANGED <<fds, closed, SendVars, RecvVars, LoopVars>>

Join(fd, nparams, chans, keys, obs) ==
    /\ Polled(fd)
    /\ Apply(gate(St, fd, joinCommand(St, fd, nparams, chans, keys)), obs)
    /\ UNCHANGED <<fds, closed, SendVars, RecvVars, LoopVars>>

Part(fd, name, obs) ==
    /\ Polled(fd)
    /\ Apply(gate(St, fd, partCommand(St, fd, name)), obs)
    /\ UNCHANGED <<fds, closed, SendVars, RecvVars, LoopVars>>

Kick(fd, params, targets, obs) ==
    /\ Polled(fd)
    /\ Apply(gate(St, fd, handelKickCommand(St, fd, params, targets)), obs)
    /\ UNCHANGED <<fds, closed, SendVars, RecvVars, LoopVars>>

Mode(fd, modeString, params, obs) ==
    /\ Polled(fd)
    /\ Apply(gate(St, fd, handelModeCommand(St, fd, modeString, params)), obs)
    /\ UNCHANGED <<fds, closed, SendVars, RecvVars, LoopVars>>

Invite(fd, targetNick, name, obs) ==
    /\ Polled(fd)
    /\ Apply(gate(St, fd, inviteCommand(St, fd, targetNick, name)), obs)
    /\ UNCHANGED <<fds, closed, SendVars, RecvVars, LoopVars>>

Topic(fd, params, trailing, obs) ==
    /\ Polled(fd)
    /\ Apply(gate(St, fd, topicCommand(St, fd, params, trailing)), obs)
    /\ UNCHANGED <<fds, closed, SendVars, RecvVars, LoopVars>>

Privmsg(fd, params, trailing, obs) ==
    /\ Polled(fd)
    /\ Apply(gate(St, fd, privateMessage(St, fd, params, trailing)), obs)
    /\ UNCHANGED <<fds, closed, SendVars, RecvVars, LoopVars>>

\* handleClientMessage when recv returns data: the bytes are appended to the
\* client's buffer and every complete command in it is parsed and dispatched.
\* The bytes of the model spell no command of the server.
Recv(fd, data, obs) ==
    /\ Polled(fd)
    /\ Len(received[fd]) + Len(data) <= MaxBytes
    /\ LET d == drainLines(Client_appendToBuffer(buffer[fd], data))
           msgs == [k \in 1..Len(d.lines) |-> ParseMessage(d.lines[k])]
       IN  /\ buffer' = [buffer EXCEPT ![fd] = d.rest]
           /\ dispatched' = [dispatched EXCEPT ![fd] = @ \o msgs]
           /\ Apply(processCommands(St, fd,
                                   [k \in 1..Len(msgs) |-> commandName(msgs[k])], 1), obs)
    /\ received' = [received EXCEPT ![fd] = @ \o data]
    /\ UNCHANGED <<fds, closed, SendVars, LoopVars>>

\* handleClientMessage when the bytes of one read spell the complete commands
\* msgs: each is dispatched in turn.  The bytes themselves are left out.
Batch(fd, msgs, obs) ==
    /\ Polled(fd)
    /\ Apply(processCommands(St, fd, msgs, 1), obs)
    /\ UNCHANGED <<fds, closed, SendVars, RecvVars, LoopVars>>

----------------------------------------------------------------------------
(* Spec: the server from its construction.  Connections come and go, clients *)
(* register and rename, and join, leave and kick on one channel.            *)

Init ==
    /\ clients = [f \in {} |-> NewClient]
    /\ fds = << >>
    /\ nicknames = EmptyBag
    /\ channels = [n \in {} |-> NewChannel("", 0)]
    /\ enq = NoFrames
    /\ closed = {}
    /\ serverReplies = NoFrames
    /\ wire = NoFrames
    /\ pushed = [fd \in Fds |-> 0]
    /\ fails = 0
    /\ buffer = NoFrames
    /\ received = NoFrames
    /\ dispatched = NoFrames
    /\ signalInterrupt = FALSE
    /\ loop = "poll"
    /\ revents = NoEvents

RegNicks == {"a", "b", "c"}
NickParams == {<<n>> : n \in RegNicks \cup {BadNick}} \cup {<< >>}

Next ==
    \/ Connect
    \/ \E fd \in Fds : Disconnect(fd)
    \/ \E fd \in Fds : Pass(fd, TRUE, FALSE)
    \/ \E fd \in Fds : User(fd, FALSE)
    \/ \E fd \in Fds, params \in NickParams : Nick(fd, params, TRUE)
    \/ \E fd \in Fds : Join(fd, 1, <<"#x">>, << >>, FALSE)
    \/ \E fd \in Fds : Part(fd, "#x", TRUE)
    \/ \E fd \in Fds, n \in RegNicks : Kick(fd, <<"#x", "targets">>, <<n>>, FALSE)

Spec == Init /\ [][Next]_vars

----------------------------------------------------------------------------
(* SpecNick: the server from its construction, with NICK as the command     *)
(* under study: clients connect, register, take and change nicknames, join  *)
(* a channel and lose their connection.                                     *)

NextNick ==
    \/ Connect
    \/ \E fd \in Fds : Disconnect(fd)
    \/ \E fd \in Fds : Pass(fd, TRUE, FALSE)
    \/ \E fd \in Fds : User(fd, FALSE)
    \/ \E fd \in Fds, n \in RegNicks : Nick(fd, <<n>>, TRUE)
    \/ \E fd \in Fds : Join(fd, 1, <<"#x">>, << >>, FALSE)

SpecNick == Init /\ [][NextNick]_vars

----------------------------------------------------------------------------
(* SpecChan: a populated server.  Three registered clients, as Spec leaves   *)
(* them after PASS, NICK and USER, work on two channels.                     *)

Populated(cl) == [nick |-> Crew[cl], user |-> "u", pass |-> TRUE, registered |-> TRUE]

InitChan ==
    /\ clients = [f \in 1..Len(Crew) |-> Populated(f)]
    /\ fds = [i \in 1..Len(Crew) |-> i]
    /\ nicknames = [n \in {Crew[i] : i \in 1..Len(Crew)} |-> 1]
    /\ channels = [n \in {} |-> NewChannel("", 0)]
    /\ enq = NoFrames
    /\ closed = {}
    /\ serverReplies = NoFrames
    /\ wire = NoFrames
    /\ pushed = [fd \in Fds |-> 0]
    /\ fails = 0
    /\ buffer = NoFrames
    /\ received = NoFrames
    /\ dispatched = NoFrames
    /\ signalInterrupt = FALSE
    /\ loop = "poll"
    /\ revents = NoEvents

CrewFds == 1..Len(Crew)
ChanLists == {<<c>> : c \in ChanNames \cup {NoChan}} \cup {<<"#y", "#x">>}
TargetLists == {<<n>> : n \in Nicks} \cup {<<"b", "c">>}
OpModes == {<<"+", "o">>, <<"-", "o">>}
Renamers == {1}                      \* the clients that send NICK
Invitees == {"a", "d"}               \* the nicks INVITE is sent for

NextChan ==
    \/ \E fd \in Renamers, n \in Nicks : Nick(fd, <<n>>, FALSE)
    \/ \E fd \in CrewFds, chans \in ChanLists : Join(fd, 1, chans, << >>, FALSE)
    \/ \E fd \in CrewFds, name \in ChanNames : Part(fd, name, FALSE)
    \/ \E fd \in CrewFds, targets \in TargetLists :
           Kick(fd, <<"#x", "targets">>, targets, FALSE)
    \/ \E fd \in CrewFds, m \in OpModes, n \in Nicks :
           Mode(fd, m, <<"#x", "modes", n>>, FALSE)
    \/ \E fd \in CrewFds, n \in Invitees : Invite(fd, n, "#x", FALSE)

SpecChan == InitChan /\ [][NextChan]_vars

----------------------------------------------------------------------------
(* SpecSend: the write side of the event loop.  Handlers push numbered      *)
(* frames on a client's queue; a POLLOUT event runs sendToClient on it, and  *)
(* each send() either writes the frame or returns -1.                        *)

\* the frames written before the first failing send, failAt = 0 when none fails
sendToClientWire(w, q, failAt) ==
    IF failAt = 0 THEN w \o q ELSE w \o SubSeq(q, 1, failAt - 1)

\* the queue when sendToClient returns
sendToClientQueue(q, failAt) == IF failAt = 0 THEN << >> ELSE q

\* some handler runs client->serverReplies.push_back(frame)
PushFrame(fd) ==
    /\ fd \in DOMAIN clients
    /\ pushed[fd] < MaxFrames
    /\ pushed' = [pushed EXCEPT ![fd] = @ + 1]
    /\ serverReplies' = [serverReplies EXCEPT ![fd] = Append(@, pushed[fd] + 1)]
    /\ UNCHANGED <<clients, fds, nicknames, channels, enq, closed, wire, fails, RecvVars, LoopVars>>

SendToClient(fd, failAt) ==
    /\ Polled(fd)
    /\ failAt <= Len(serverReplies[fd])
    /\ failAt # 0 => fails < MaxFails
    /\ wire' = [wire EXCEPT ![fd] = sendToClientWire(@, serverReplies[fd], failAt)]
    /\ serverReplies' = [serverReplies EXCEPT ![fd] = sendToClientQueue(@, failAt)]
    /\ fails' = IF failAt = 0 THEN fails ELSE fails + 1
    /\ UNCHANGED <<clients, fds, nicknames, channels, enq, closed, pushed, RecvVars, LoopVars>>

NextSend ==
    \/ Connect
    \/ \E fd \in Fds : PushFrame(fd)
    \/ \E fd \in Fds, failAt \in 0..MaxFrames : SendToClient(fd, failAt)

SpecSend == Init /\ [][NextSend]_vars

----------------------------------------------------------------------------
(* SpecLoop: the ticks of runServer.  A tick is the while test, poll, the   *)
(* accept of a pending connection and one pass over the poll entries; each   *)
(* entry is served by the branch its revents select.  A read stands for a   *)
(* command whose handler may push one reply on the sender's queue.  The      *)
(* signal handler may run between any two steps.                            *)

Listening == 0                       \* _listeningSocket, _fds[0]
Events == SUBSET {"IN", "OUT"}       \* POLLIN and POLLOUT in a client's revents

\* the branch of the pass a client entry with these revents is served by
Branch(ev) ==
    IF "IN" \in ev THEN "read" ELSE IF "OUT" \in ev THEN "write" ELSE "none"

\* the entry the iterator of the pass stands at: the first poll entry not yet
\* gone through in this tick, 0 at _fds.end()
Current ==
    LET left == {i \in 1..Len(fds) : fds[i] \notin DOMAIN revents}
    IN  IF left = {} THEN 0 ELSE fds[CHOOSE i \in left : \A j \in left : i <= j]

Seen(fd, ev) == [f \in (DOMAIN revents) \cup {fd} |-> IF f = fd THEN ev ELSE revents[f]]

\* signalHandler
Signal ==
    /\ loop \in {"poll", "accept", "iter"}
    /\ ~signalInterrupt
    /\ signalInterrupt' = TRUE
    /\ UNCHANGED <<clients, fds, nicknames, channels, enq, closed, SendVars, RecvVars,
                   loop, revents>>

\* the while test passes and poll returns, with or without a connection pending
Poll(pending) ==
    /\ loop = "poll"
    /\ ~signalInterrupt
    /\ pending => Cardinality(DOMAIN clients) < MaxClients
    /\ loop' = IF pending THEN "accept" ELSE "iter"
    /\ revents' = NoEvents
    /\ UNCHANGED <<clients, fds, nicknames, channels, enq, closed, SendVars, RecvVars,
                   signalInterrupt>>

\* handleNewConnection, accept succeeds; the new entry has no revents in this tick
Accept ==
    /\ loop = "accept"
    /\ handleNewConnection
    /\ loop' = "iter"
    /\ revents' = Seen(acceptedSocket, {})
    /\ UNCHANGED signalInterrupt

\* handleNewConnection, accept returns -1: the exception is thrown from the
\* call in runServer, which no try block encloses
AcceptFails ==
    /\ loop = "accept"
    /\ loop' = "thrown"
    /\ UNCHANGED <<clients, fds, nicknames, channels, enq, closed, SendVars, RecvVars,
                   signalInterrupt, revents>>

\* the read branch, recv delivers a command: its handler pushes a reply or not
ServeRead(fd, ev, reply) ==
    /\ loop = "iter" /\ fd = Current /\ Branch(ev) = "read"
    /\ reply => pushed[fd] < MaxFrames
    /\ pushed' = IF reply THEN [pushed EXCEPT ![fd] = @ + 1] ELSE pushed
    /\ serverReplies' = IF reply
                        THEN [serverReplies EXCEPT ![fd] = Append(@, pushed[fd] + 1)]
                        ELSE serverReplies
    /\ revents' = Seen(fd, ev)
    /\ UNCHANGED <<clients, fds, nicknames, channels, enq, closed, wire, fails, RecvVars,
                   signalInterrupt, loop>>

\* the read branch, recv returns 0 or -1
ServeHangup(fd, ev) ==
    /\ loop = "iter" /\ fd = Current /\ Branch(ev) = "read"
    /\ LET marked == handleClientDisconnection(fds, fd)
           arg == reapArgument(fd)
       IN  /\ closed' = closeClientClosed(clients, closed, arg)
           /\ clients' = closeClientTable(clients, arg)
           /\ fds' = closeClientPoll(marked, arg)
    /\ revents' = Seen(fd, ev)
    /\ UNCHANGED <<nicknames, channels, enq, SendVars, RecvVars, signalInterrupt, loop>>

\* the write branch: sendToClient
ServeWrite(fd, ev, failAt) ==
    /\ loop = "iter" /\ fd = Current /\ Branch(ev) = "write"
    /\ failAt <= Len(serverReplies[fd])
    /\ failAt # 0 => fails < MaxFails
    /\ wire' = [wire EXCEPT ![fd] = sendToClientWire(@, serverReplies[fd], failAt)]
    /\ serverReplies' = [serverReplies EXCEPT ![fd] = sendToClientQueue(@, failAt)]
    /\ fails' = IF failAt = 0 THEN fails ELSE fails + 1
    /\ revents' = Seen(fd, ev)
    /\ UNCHANGED <<clients, fds, nicknames, channels, enq, closed, pushed, RecvVars,
                   signalInterrupt, loop>>

\* an entry without events
ServeNone(fd) ==
    /\ loop = "iter" /\ fd = Current
    /\ revents' = Seen(fd, {})
    /\ UNCHANGED <<clients, fds, nicknames, channels, enq, closed, SendVars, RecvVars,
                   signalInterrupt, loop>>

\* the pass has reached _fds.end()
EndTick ==
    /\ loop = "iter" /\ Current = 0
    /\ loop' = "poll"
    /\ revents' = NoEvents
    /\ UNCHANGED <<clients, fds, nicknames, channels, enq, closed, SendVars, RecvVars,
                   signalInterrupt>>

\* cleanupServer: close on every poll entry and on the listening socket, delete
\* on every Client, the tables cleared, the Server deleted
cleanupServer ==
    /\ closed' = closed \cup {fds[i] : i \in 1..Len(fds)} \cup {Listening}
    /\ clients' = [f \in {} |-> NewClient]
    /\ fds' = << >>
    /\ nicknames' = EmptyBag
    /\ channels' = [n \in {} |-> NewChannel("", 0)]
    /\ enq' = NoFrames
    /\ serverReplies' = NoFrames
    /\ buffer' = NoFrames
    /\ UNCHANGED <<wire, pushed, fails, received, dispatched>>

\* the while test finds the flag set
Shutdown ==
    /\ loop = "poll"
    /\ signalInterrupt
    /\ cleanupServer
    /\ loop' = "exited"
    /\ UNCHANGED <<signalInterrupt, revents>>

\* poll returns -1
PollError ==
    /\ loop = "poll"
    /\ ~signalInterrupt
    /\ cleanupServer
    /\ loop' = "exited"
    /\ UNCHANGED <<signalInterrupt, revents>>

NextLoop ==
    \/ Signal
    \/ \E pending \in BOOLEAN : Poll(pending)
    \/ Accept
    \/ AcceptFails
    \/ \E fd \in Fds, ev \in Events, reply \in BOOLEAN : ServeRead(fd, ev, reply)
    \/ \E fd \in Fds, ev \in Events : ServeHangup(fd, ev)
    \/ \E fd \in Fds, ev \in Events, failAt \in 0..MaxFrames : ServeWrite(fd, ev, failAt)
    \/ \E fd \in Fds : ServeNone(fd)
    \/ EndTick
    \/ Shutdown
    \/ PollError

SpecLoop == Init /\ [][NextLoop]_vars

\* the same with the steps of a tick and the exit taken when they can be: poll
\* has a timeout, accept does not block, the pass is finite
Progress ==
    \/ Accept
    \/ AcceptFails
    \/ \E fd \in Fds, ev \in Events, reply \in BOOLEAN : ServeRead(fd, ev, reply)
    \/ \E fd \in Fds, ev \in Events : ServeHangup(fd, ev)
    \/ \E fd \in Fds, ev \in Events, failAt \in 0..MaxFrames : ServeWrite(fd, ev, failAt)
    \/ \E fd \in Fds : ServeNone(fd)
    \/ EndTick
    \/ Shutdown

SpecLoopFair == SpecLoop /\ WF_vars(Progress)

----------------------------------------------------------------------------
(* SpecJoin: admission to a channel.  The clients of the populated server    *)
(* join and leave, and the operators of #x set its limit, key and invite-only *)
(* modes and invite.                                                         *)

JoinLists == {<<"#x">>, <<"#y", "#x">>}
KeyLists == {<< >>, <<"k1">>, <<"k2">>}
AdmissionModes ==
    {<< <<"+", "l">>, <<"1">> >>, << <<"+", "l">>, <<"2">> >>,
     << <<"-", "l">>, << >> >>,
     << <<"+", "i">>, << >> >>, << <<"-", "i">>, << >> >>,
     << <<"+", "k">>, <<"k1">> >>, << <<"-", "k">>, << >> >>}
JoinInvitees == {"b", "c"}

NextJoin ==
    \/ \E fd \in CrewFds, chans \in JoinLists, keys \in KeyLists :
           Join(fd, IF keys = << >> THEN 1 ELSE 2, chans, keys, TRUE)
    \/ \E fd \in CrewFds : Part(fd, "#x", FALSE)
    \/ \E fd \in CrewFds, m \in AdmissionModes :
           Mode(fd, m[1], <<"#x", "modes">> \o m[2], FALSE)
    \/ \E fd \in CrewFds, n \in JoinInvitees : Invite(fd, n, "#x", FALSE)

SpecJoin == InitChan /\ [][NextJoin]_vars

----------------------------------------------------------------------------
(* SpecInvite: admission by invitation.  On the populated server the members *)
(* of #x invite, its operators set invite-only, a limit of one and a key,     *)
(* and clients join #x with or without the key and leave it.                 *)

InviteKeyLists == {<< >>, <<"k1">>}
InviteModes ==
    {<< <<"+", "l">>, <<"1">> >>, << <<"+", "i">>, << >> >>,
     << <<"+", "k">>, <<"k1">> >>, << <<"-", "k">>, << >> >>}

NextInvite ==
    \/ \E fd \in CrewFds, keys \in InviteKeyLists :
           Join(fd, IF keys = << >> THEN 1 ELSE 2, <<"#x">>, keys, TRUE)
    \/ \E fd \in CrewFds : Part(fd, "#x", FALSE)
    \/ \E fd \in CrewFds, m \in InviteModes :
           Mode(fd, m[1], <<"#x", "modes">> \o m[2], FALSE)
    \/ \E fd \in CrewFds, n \in JoinInvitees : Invite(fd, n, "#x", FALSE)

SpecInvite == InitChan /\ [][NextInvite]_vars

----------------------------------------------------------------------------
(* SpecKeys: channel lists and key lists.  On the populated server clients   *)
(* join #x alone or after #y, with one key or two, the operators of #x set   *)
(* and remove its key, and members leave.                                    *)

KeyedJoinLists == {<<"#x">>, <<"#y", "#x">>}
KeyedKeyLists == {<< >>, <<"k1">>, <<"k1", "k2">>, <<"k2", "k1">>}
KeyModes == {<< <<"+", "k">>, <<"k1">> >>, << <<"-", "k">>, << >> >>}

NextKeys ==
    \/ \E fd \in CrewFds, chans \in KeyedJoinLists, keys \in KeyedKeyLists :
           Join(fd, IF keys = << >> THEN 1 ELSE 2, chans, keys, TRUE)
    \/ \E fd \in CrewFds, name \in ChanNames : Part(fd, name, FALSE)
    \/ \E fd \in CrewFds, m \in KeyModes :
           Mode(fd, m[1], <<"#x", "modes">> \o m[2], FALSE)

SpecKeys == InitChan /\ [][NextKeys]_vars

----------------------------------------------------------------------------
(* SpecCreate: channel creation.  On the populated server clients join names *)
(* with the # prefix, with the & prefix and with neither, alone and in     *)
(* lists, and leave again.                                                   *)

CreateLists == {<<"#x">>, <<AmpChan>>, <<NoChan>>, <<NoChan, "#x">>, <<AmpChan, NoChan>>}

NextCreate ==
    \/ \E fd \in CrewFds, chans \in CreateLists : Join(fd, 1, chans, << >>, TRUE)
    \/ \E fd \in CrewFds, name \in {"#x", AmpChan} : Part(fd, name, FALSE)

SpecCreate == InitChan /\ [][NextCreate]_vars

----------------------------------------------------------------------------
(* SpecTopic: the topic of a channel.  On the populated server clients join  *)
(* and leave #x, its operators set and clear mode t and give and take the    *)
(* operator status, and clients query and set the topic.                     *)
(* SpecModes: the key and the limit of a channel.  On the populated server   *)
(* clients join and leave #x, and everybody sends MODE lines that set and     *)
(* clear key and limit with good and bad arguments, alone and combined.       *)

LimitArgs == {"2", "0", "-1", "x"}   \* atoi gives 2, 0, -1, 0
KeyLimitModes ==
    {<< <<"+", "k">>, <<k>> >> : k \in Keys \cup {BadKey}}
      \cup {<< <<"+", "l">>, <<n>> >> : n \in LimitArgs}
      \cup {<< <<"-", "k">>, << >> >>, << <<"-", "l">>, << >> >>,
            << <<"+", "k", "l">>, <<"k1", "2">> >>,
            << <<"+", "l", "k">>, <<"0", BadKey>> >>,
            << <<"-", "k", "+", "k">>, <<"k2">> >>,
            << <<"+", "k">>, << >> >>, << <<"+", "l">>, << >> >>}

NextModes ==
    \/ \E fd \in CrewFds, keys \in InviteKeyLists :
           Join(fd, IF keys = << >> THEN 1 ELSE 2, <<"#x">>, keys, FALSE)
    \/ \E fd \in CrewFds : Part(fd, "#x", FALSE)
    \/ \E fd \in CrewFds, m \in KeyLimitModes :
           Mode(fd, m[1], <<"#x", "modes">> \o m[2], TRUE)

SpecModes == InitChan /\ [][NextModes]_vars

----------------------------------------------------------------------------

TopicTexts == {"", "t1", "t2"}       \* no trailing, and two topics
TopicParams == {<<"#x">>, <<"#y">>, <<NoChan>>, << >>}
TopicModes ==
    {<< <<"+", "t">>, << >> >>, << <<"-", "t">>, << >> >>}
      \cup {<< <<s, "o">>, <<n>> >> : s \in {"+", "-"}, n \in {"a", "b"}}

NextTopic ==
    \/ \E fd \in CrewFds : Join(fd, 1, <<"#x">>, << >>, FALSE)
    \/ \E fd \in CrewFds : Part(fd, "#x", FALSE)
    \/ \E fd \in CrewFds, m \in TopicModes :
           Mode(fd, m[1], <<"#x", "modes">> \o m[2], FALSE)
    \/ \E fd \in CrewFds, params \in TopicParams, trailing \in TopicTexts :
           Topic(fd, params, trailing, TRUE)

SpecTopic == InitChan /\ [][NextTopic]_vars

----------------------------------------------------------------------------
(* SpecMsg: messages.  On the populated server clients join and leave #x,    *)
(* one of them changes its nickname, and clients send PRIVMSG to channels    *)
(* and to nicknames, with and without a text.                                *)

MsgParams == {<<"#x">>, <<"#y">>, <<"b">>, <<"d">>, << >>}
MsgTexts == {"", "hi"}

NextMsg ==
    \/ \E fd \in Renamers, n \in Nicks : Nick(fd, <<n>>, FALSE)
    \/ \E fd \in CrewFds : Join(fd, 1, <<"#x">>, << >>, FALSE)
    \/ \E fd \in CrewFds : Part(fd, "#x", FALSE)
    \/ \E fd \in CrewFds, params \in MsgParams, trailing \in MsgTexts :
           Privmsg(fd, params, trailing, TRUE)

SpecMsg == InitChan /\ [][NextMsg]_vars

----------------------------------------------------------------------------
(* SpecRecv: the line framer.  One client of the populated server sends a    *)
(* stream of letters, spaces and newlines, which recv delivers one or two    *)
(* bytes at a time.                                                          *)

Reader == 1                          \* the client whose bytes are read
StreamBytes == {"a", " ", "\n"}
Chunks == {<<x>> : x \in StreamBytes} \cup {<<x, y>> : x, y \in StreamBytes}

NextRecv == \E data \in Chunks : Recv(Reader, data, FALSE)

SpecRecv == InitChan /\ [][NextRecv]_vars

----------------------------------------------------------------------------
(* SpecParse: the message parser.  One client of the populated server sends  *)
(* lines of letters, colons, spaces and at signs, and recv delivers each     *)
(* line whole, with its newline.                                             *)

LineBytes == {"a", ":", " ", "@"}

RECURSIVE Strings(_, _)
Strings(alphabet, n) ==
    IF n = 0 THEN {<< >>}
    ELSE LET shorter == Strings(alphabet, n - 1)
         IN  shorter \cup {Append(str, x) : str \in shorter, x \in alphabet}

Lines == {Append(str, "\n") : str \in Strings(LineBytes, MaxBytes - 1)}

NextParse == \E line \in Lines : Recv(Reader, line, FALSE)

SpecParse == InitChan /\ [][NextParse]_vars

----------------------------------------------------------------------------
(* SpecBatch: several commands in one read.  The clients of the populated    *)
(* server send one or two commands about #x at a time.                       *)

Command(cmd, params, trailing) == [cmd |-> cmd, params |-> params, trailing |-> trailing]

BatchCommands ==
    {Command("JOIN", <<"#x">>, ""), Command("PART", <<"#x">>, ""),
     Command("PRIVMSG", <<"#x">>, "hi"), Command("TOPIC", <<"#x">>, "t1"),
     Command("TOPIC", <<"#x">>, ""), Command("KICK", <<"#x", "b">>, ""),
     Command("unknown", << >>, "")}

Batches == {<<c>> : c \in BatchCommands} \cup {<<c, d>> : c, d \in BatchCommands}

NextBatch == \E fd \in CrewFds, msgs \in Batches : Batch(fd, msgs, TRUE)

SpecBatch == InitChan /\ [][NextBatch]_vars

----------------------------------------------------------------------------
(* Claims *)

Keyset(m) == DOMAIN m

\* C1: in every reachable state every nick in a channel's operators map is
\* also a key of its users map.
C1_OperatorsSubsetUsers ==
    \A name \in DOMAIN channels :
        Keyset(channels[name].operators) \subseteq Keyset(channels[name].users)

\* a removal of nick c from channel name: PART by c, or KICK of c alone
RemovalOf(name, c) ==
    \/ \E fd \in Fds : clients[fd].nick = c /\ Part(fd, name, FALSE)
    \/ \E fd \in Fds : Kick(fd, <<name, "targets">>, <<c>>, FALSE)

\* C2: removeClient(c) with c in users leaves c a key of neither map, and when
\* c was the only operator and other users remain, the one operator afterwards
\* is the first remaining user in nick order.
C2_RemoveClientContract ==
    [][\A name \in DOMAIN channels : \A c \in Keyset(channels[name].users) :
          (RemovalOf(name, c) /\ name \in DOMAIN channels'
              /\ c \notin Keyset(channels'[name].users))
          => /\ c \notin Keyset(channels'[name].operators)
             /\ (Keyset(channels[name].operators) = {c}
                   => Keyset(channels'[name].operators)
                        = {MapBegin(channels'[name].users)})]_vars

ChannelsReferTo(fd) ==
    \E name \in DOMAIN channels :
        \E m \in {channels[name].users, channels[name].operators} :
            \E n \in DOMAIN m : m[n] = fd

\* C4: when recv on a client connection returns 0 or an error, the socket is
\* closed, the Client record leaves the fd table, the entry leaves the poll
\* set, and no channel's users or operators refers to the client any more.
C4_DisconnectReaps ==
    [][\A fd \in Fds :
          Disconnect(fd)
          => /\ fd \in closed'
             /\ fd \notin DOMAIN clients'
             /\ ~SeqHas(fds', fd)
             /\ ~ChannelsReferTo(fd)']_vars

Holders(n) == {fd \in DOMAIN clients : clients[fd].nick = n}

\* C5 as stated: every nick in the nickname index is the nickname of exactly
\* one client of the fd table, and that client is registered.
C5_IndexHeldByRegistered ==
    \A n \in DOMAIN nicknames :
        /\ Cardinality(Holders(n)) = 1
        /\ \A fd \in Holders(n) : clients[fd].registered

\* C5 amended: every nick in the nickname index is the current nickname of
\* exactly one client of the fd table, registered or not.
C5_IndexHeldByOne ==
    \A n \in DOMAIN nicknames : Cardinality(Holders(n)) = 1

\* C5 witness: two nicks are indexed, one of them held by a client that has
\* renamed and is not registered, the other by a client that has disconnected.
C5_Witness ==
    /\ Cardinality(DOMAIN nicknames) = 2
    /\ \E fd \in DOMAIN clients : ~Polled(fd) /\ clients[fd].nick \in DOMAIN nicknames
    /\ \E fd \in DOMAIN clients :
          /\ ~clients[fd].registered
          /\ enq[fd] = << <<"RPL_NICK", "a", clients[fd].nick>> >>

\* C6: no two clients of the fd table hold the same non-empty nickname, and a
\* NICK whose argument is in the nickname index is answered with
\* ERR_NICKNAMEINUSE and changes neither the index, nor any client's
\* nickname, nor any channel.
C6_NickUnique ==
    /\ [](\A f \in DOMAIN clients : \A g \in DOMAIN clients :
             (f # g /\ clients[f].nick # "") => clients[f].nick # clients[g].nick)
    /\ [][\A fd \in Fds : \A n \in RegNicks :
             (n \in DOMAIN nicknames /\ Nick(fd, <<n>>, TRUE))
             => /\ enq'[fd] = << <<"ERR_NICKNAMEINUSE", n>> >>
                /\ nicknames' = nicknames
                /\ clients' = clients
                /\ channels' = channels]_vars

\* C6 witness: a client whose NICK named another client's nickname has been
\* answered with ERR_NICKNAMEINUSE.
C6_Witness ==
    \E fd \in DOMAIN clients : \E g \in DOMAIN clients :
        /\ fd # g
        /\ clients[g].nick # ""
        /\ clients[fd].nick # ""
        /\ enq[fd] = << <<"ERR_NICKNAMEINUSE", clients[g].nick>> >>

\* a map with key old, if it has it, moved to key new
Rekeyed(m, old, new) ==
    IF old \in DOMAIN m
    THEN [k \in ((DOMAIN m) \ {old}) \cup {new} |-> IF k = new THEN m[old] ELSE m[k]]
    ELSE m

\* C7: after a NICK change of a client from old to new, in every channel new
\* is a key of exactly the maps old was a key of, mapped to the same client,
\* old is a key of none, and every other entry and field is unchanged.
C7_NickRekeysChannels ==
    [][\A fd \in DOMAIN clients :
          (fd \in DOMAIN clients' /\ clients[fd].nick # ""
              /\ clients'[fd].nick # clients[fd].nick)
          => /\ DOMAIN channels' = DOMAIN channels
             /\ \A name \in DOMAIN channels :
                   channels'[name] =
                     [channels[name] EXCEPT
                        !.users = Rekeyed(@, clients[fd].nick, clients'[fd].nick),
                        !.operators = Rekeyed(@, clients[fd].nick, clients'[fd].nick),
                        !.inviteList = Rekeyed(@, clients[fd].nick, clients'[fd].nick)]
             /\ \A name \in DOMAIN channels' :
                   clients[fd].nick \notin
                       Keyset(channels'[name].users) \cup Keyset(channels'[name].operators)
                           \cup Keyset(channels'[name].inviteList)]_vars

\* C7 witness: the renamed client is a user and an operator of one channel
\* under its new nick, is on the invite list of another under its new nick,
\* and a second client is a member next to it.
C7_Witness ==
    /\ clients[1].nick = "d"
    /\ DOMAIN channels = {"#x", "#y"}
    /\ "d" \in Keyset(channels["#y"].users) \cap Keyset(channels["#y"].operators)
    /\ "b" \in Keyset(channels["#y"].users)
    /\ "d" \in Keyset(channels["#x"].inviteList)

\* C8: in every reachable state the channel registry holds no channel with an
\* empty users map.
C8_NoEmptyChannel ==
    \A name \in DOMAIN channels : Keyset(channels[name].users) # {}

\* C8 witness: the last member has just left its channel (the PART frame went
\* to it alone) and the channel is no longer in the registry.
C8_Witness ==
    /\ "#x" \notin DOMAIN channels
    /\ \E fd \in DOMAIN clients :
          /\ enq[fd] = << <<"PART", clients[fd].nick, "#x">> >>
          /\ \A g \in Fds \ {fd} : enq[g] = << >>

\* C9: the frames written to a client's socket are the frames pushed on its
\* queue, in push order and each once: frame i is the i-th frame written.
C9_WireIsQueuePrefix ==
    \A fd \in Fds :
        /\ Len(wire[fd]) <= pushed[fd]
        /\ \A i \in 1..Len(wire[fd]) : wire[fd][i] = i

\* the JOIN loop reaches name: it is the first channel of the list, or the
\* second after a first that did not exist and was created
JoinReaches(chans, name) ==
    \/ chans[1] = name
    \/ Len(chans) = 2 /\ chans[2] = name /\ chans[1] \notin DOMAIN channels

JoinStep(fd, chans) ==
    \E keys \in KeyLists : Join(fd, IF keys = << >> THEN 1 ELSE 2, chans, keys, TRUE)

Memberships(ch) == <<ch.users, ch.operators, ch.inviteList>>

\* mode l is set on the channel and it has at least userLimit users
Full(ch) == ch.modes["l"] /\ Cardinality(Keyset(ch.users)) >= ch.UserLimit

\* C10 as stated: a JOIN of an existing channel by a client that is not on
\* its invite list, while mode l is set and the channel has at least
\* userLimit users, is answered with ERR_CHANNELISFULL and leaves users,
\* operators and inviteList unchanged.
C10_FullChannelRefuses ==
    [][\A fd \in CrewFds : \A name \in DOMAIN channels : \A chans \in JoinLists :
          (/\ clients[fd].nick \notin Keyset(channels[name].inviteList)
           /\ Full(channels[name])
           /\ JoinReaches(chans, name)
           /\ JoinStep(fd, chans))
          => /\ enq'[fd][Len(enq'[fd])] = <<"ERR_CHANNELISFULL", clients[fd].nick, name>>
             /\ Memberships(channels'[name]) = Memberships(channels[name])]_vars

\* C10 amended: the same for a client that is neither a member of the channel
\* nor on its invite list; and such a client becomes a member of a channel
\* with mode l set only when the channel had fewer than userLimit users.
C10_FullChannelRefusesNonMember ==
    [][\A fd \in CrewFds : \A name \in DOMAIN channels :
          (/\ clients[fd].nick \notin Keyset(channels[name].users)
           /\ clients[fd].nick \notin Keyset(channels[name].inviteList)
           /\ channels[name].modes["l"])
          => /\ (name \in DOMAIN channels'
                    /\ clients[fd].nick \in Keyset(channels'[name].users))
                => Cardinality(Keyset(channels[name].users)) < channels[name].UserLimit
             /\ \A chans \in JoinLists :
                   (/\ Full(channels[name])
                    /\ JoinReaches(chans, name)
                    /\ JoinStep(fd, chans))
                   => /\ enq'[fd][Len(enq'[fd])]
                           = <<"ERR_CHANNELISFULL", clients[fd].nick, name>>
                      /\ Memberships(channels'[name]) = Memberships(channels[name])
       ]_vars

\* C10 witness: #x has mode l and as many users as its limit of 2, and a
\* client that is neither a member nor invited has just been answered
\* ERR_CHANNELISFULL.
C10_Witness ==
    /\ "#x" \in DOMAIN channels
    /\ channels["#x"].modes["l"]
    /\ channels["#x"].UserLimit = 2
    /\ Cardinality(Keyset(channels["#x"].users)) = 2
    /\ \E fd \in CrewFds :
          /\ clients[fd].nick \notin Keyset(channels["#x"].users)
          /\ clients[fd].nick \notin Keyset(channels["#x"].inviteList)
          /\ enq[fd] = << <<"ERR_CHANNELISFULL", clients[fd].nick, "#x">> >>

\* a JOIN line of fd with channel list chans and key list keys
JoinWith(fd, chans, keys) == Join(fd, IF keys = << >> THEN 1 ELSE 2, chans, keys, TRUE)

\* the key the JOIN offers for the channel: the source reads the head of the key list
KeyMatches(ch, keys) == keys # << >> /\ keys[1] = ch.key

\* the server state and the frames after fd's line JOIN chans keys: what the
\* action Join makes of the current state
JoinOutcome(fd, chans, keys) ==
    gate(St, fd, joinCommand(St, fd, IF keys = << >> THEN 1 ELSE 2, chans, keys))

\* C11 as stated: in every reachable state, a JOIN of #x by a client on its
\* invite list makes the client a member whatever modes i and l say, and
\* takes it off the invite list.
C11_InvitedAdmitted ==
    ("#x" \in DOMAIN channels)
    => \A fd \in CrewFds : \A keys \in InviteKeyLists :
          clients[fd].nick \in Keyset(channels["#x"].inviteList)
          => LET after == JoinOutcome(fd, <<"#x">>, keys).channels["#x"]
             IN  /\ clients[fd].nick \in Keyset(after.users)
                 /\ clients[fd].nick \notin Keyset(after.inviteList)

\* C11 amended: the same for an invited client that offers the channel's key
\* when mode k is set (with mode k set and another key or none the JOIN is
\* rejected); the other entries of the invite list stay; and a JOIN that does
\* not admit its sender leaves the invite list as it was.
C11_InvitedAdmittedUnlessKey ==
    ("#x" \in DOMAIN channels)
    => \A fd \in CrewFds : \A keys \in InviteKeyLists :
          LET before == channels["#x"]
              after == JoinOutcome(fd, <<"#x">>, keys).channels["#x"]
              nick == clients[fd].nick
          IN  /\ (/\ nick \in Keyset(before.inviteList)
                  /\ before.modes["k"] => KeyMatches(before, keys))
                 => /\ nick \in Keyset(after.users)
                    /\ Keyset(after.inviteList) = Keyset(before.inviteList) \ {nick}
              /\ (nick \notin Keyset(after.users) \/ after.users = before.users)
                 => after.inviteList = before.inviteList

\* C11 witness: #x is invite-only and over its limit, and the client that has
\* just been greeted on it joined on an invitation that is now used up.
C11_Witness ==
    /\ "#x" \in DOMAIN channels
    /\ channels["#x"].modes["i"]
    /\ channels["#x"].modes["l"]
    /\ Cardinality(Keyset(channels["#x"].users)) > channels["#x"].UserLimit
    /\ \E fd \in CrewFds :
          /\ enq[fd] = << <<"RPL_JOIN", clients[fd].nick, "#x", "greeting">> >>
          /\ clients[fd].nick \in Keyset(channels["#x"].users)
          /\ clients[fd].nick \notin Keyset(channels["#x"].inviteList)
          /\ \E g \in CrewFds \ {fd} : enq[g] = << <<"RPL_JOIN", clients[fd].nick, "#x">> >>

\* the key list holds the channel's key at the position the channel has in
\* the channel list
SuppliesKey(chans, keys, name) ==
    \E i \in 1..Len(chans) :
        chans[i] = name /\ i <= Len(keys) /\ keys[i] = channels[name].key

\* the replies of the admission checks joinCommand makes before the key check
EarlierRefusals(nick, name) ==
    {<<"ERR_USERONCHANNEL", nick, name>>, <<"ERR_CHANNELISFULL", nick, name>>,
     <<"ERR_INVITEONLYCHAN", nick, name>>}

\* C12: while a channel has mode k set, a JOIN that reaches it makes its
\* sender a member only if the key list holds the channel's key at the
\* channel's position; otherwise users, operators and inviteList are
\* unchanged and the sender is answered ERR_BADCHANNELKEY (or, read in the
\* claim's favour, with the refusal of an earlier admission check).
C12_KeyRequired ==
    [][\A name \in DOMAIN channels :
          channels[name].modes["k"]
          => \A fd \in CrewFds : \A chans \in JoinLists : \A keys \in KeyLists :
                (/\ ~SuppliesKey(chans, keys, name)
                 /\ JoinReaches(chans, name)
                 /\ JoinWith(fd, chans, keys))
                => /\ Memberships(channels'[name]) = Memberships(channels[name])
                   /\ enq'[fd][Len(enq'[fd])]
                        \in {<<"ERR_BADCHANNELKEY", clients[fd].nick, name>>}
                              \cup EarlierRefusals(clients[fd].nick, name)]_vars

\* C12 witness: #x has a key and a client that is no member of it has just
\* been answered ERR_BADCHANNELKEY.
C12_Witness ==
    /\ "#x" \in DOMAIN channels
    /\ channels["#x"].modes["k"]
    /\ \E fd \in CrewFds :
          /\ clients[fd].nick \notin Keyset(channels["#x"].users)
          /\ enq[fd] = << <<"ERR_BADCHANNELKEY", clients[fd].nick, "#x">> >>

\* C13: in every reachable state, a JOIN of #x by a member of #x is answered
\* with ERR_USERONCHANNEL, pushes nothing on any other client, and leaves the
\* channel's users, operators, inviteList, modes, key, limit and topic (and
\* the rest of the server) as they were.
C13_MemberRejoinRefused ==
    ("#x" \in DOMAIN channels)
    => \A fd \in CrewFds : \A keys \in InviteKeyLists :
          clients[fd].nick \in Keyset(channels["#x"].users)
          => LET R == JoinOutcome(fd, <<"#x">>, keys)
             IN  /\ R.enq[fd] = << <<"ERR_USERONCHANNEL", clients[fd].nick, "#x">> >>
                 /\ \A g \in Fds \ {fd} : R.enq[g] = << >>
                 /\ R.channels = channels
                 /\ R.clients = clients
                 /\ R.nicknames = nicknames

\* C13 witness: a member of #x, which has a second member, a key and a
\* limit, has just been answered ERR_USERONCHANNEL, and nobody else was sent
\* anything.
C13_Witness ==
    /\ "#x" \in DOMAIN channels
    /\ channels["#x"].modes["k"]
    /\ channels["#x"].modes["l"]
    /\ Cardinality(Keyset(channels["#x"].users)) = 2
    /\ \E fd \in CrewFds :
          /\ clients[fd].nick \in Keyset(channels["#x"].users)
          /\ enq[fd] = << <<"ERR_USERONCHANNEL", clients[fd].nick, "#x">> >>
          /\ \A g \in Fds \ {fd} : enq[g] = << >>

\* the error replies JOIN has for a channel
JoinErrors(nick, name) ==
    EarlierRefusals(nick, name) \cup {<<"ERR_BADCHANNELKEY", nick, name>>}

\* C14: after a JOIN with a channel list, for every listed name that starts
\* with # or & the sender is a member of that channel or has been pushed an
\* error reply for it.
C14_EveryListedChannelProcessed ==
    [][\A fd \in CrewFds : \A chans \in JoinLists : \A keys \in KeyLists :
          JoinWith(fd, chans, keys)
          => \A i \in 1..Len(chans) :
                isChannelName(chans[i])
                => \/ /\ chans[i] \in DOMAIN channels'
                      /\ clients[fd].nick \in Keyset(channels'[chans[i]].users)
                   \/ \E k \in 1..Len(enq'[fd]) :
                         enq'[fd][k] \in JoinErrors(clients[fd].nick, chans[i])]_vars

\* C14 witness: a JOIN of two channels that did not exist has created both:
\* its sender was greeted on #y and then on #x.
C14_Witness ==
    \E fd \in CrewFds :
        /\ enq[fd] = << <<"RPL_JOIN", clients[fd].nick, "#y", "greeting">>,
                        <<"RPL_JOIN", clients[fd].nick, "#x", "greeting">> >>
        /\ Keyset(channels["#y"].users) = {clients[fd].nick}
        /\ Keyset(channels["#x"].users) = {clients[fd].nick}

\* the client passes the admission checks that come before the key check
PassesEarlierChecks(ch, nick) ==
    /\ nick \notin Keyset(ch.users)
    /\ nick \in Keyset(ch.inviteList) \/ ~Full(ch)
    /\ nick \in Keyset(ch.inviteList) \/ ~ch.modes["i"]

\* C15: a JOIN that reaches a channel with mode k set, from a client that
\* passes the earlier admission checks, admits the client exactly when the
\* key list holds the channel's key at the channel's position in the channel
\* list.
C15_KeysPairedByPosition ==
    [][\A name \in DOMAIN channels :
          channels[name].modes["k"]
          => \A fd \in CrewFds :
                PassesEarlierChecks(channels[name], clients[fd].nick)
                => \A chans \in KeyedJoinLists : \A keys \in KeyedKeyLists :
                      (JoinReaches(chans, name) /\ JoinWith(fd, chans, keys))
                      => (clients[fd].nick \in Keyset(channels'[name].users)
                            <=> SuppliesKey(chans, keys, name))]_vars

\* C15 witness: #x has the key k1, and a client that sent JOIN #y,#x has
\* created #y and has been refused on #x with ERR_BADCHANNELKEY.
C15_Witness ==
    /\ DOMAIN channels = {"#x", "#y"}
    /\ channels["#x"].modes["k"]
    /\ channels["#x"].key = "k1"
    /\ \E fd \in CrewFds :
          /\ enq[fd] = << <<"RPL_JOIN", clients[fd].nick, "#y", "greeting">>,
                          <<"ERR_BADCHANNELKEY", clients[fd].nick, "#x">> >>
          /\ Keyset(channels["#y"].users) = {clients[fd].nick}

\* the names of the model whose first character is # or &
HashOrAmp == {"#x", "#y", "&x"}

\* the JOIN loop reaches position i of the list: no earlier name of the list
\* is a channel of the registry
ReachesPosition(chans, i) == \A j \in 1..(i - 1) : chans[j] \notin DOMAIN channels

\* C16: in every reachable state every channel name in the registry starts
\* with # or &; and a JOIN whose loop reaches a name that is not in the
\* registry creates the channel when the name starts with # or &, with the
\* sender as its only user and only operator, and otherwise creates nothing
\* and pushes no frame about that name on anybody.
C16_CreationNeedsPrefix ==
    /\ DOMAIN channels \subseteq HashOrAmp
    /\ \A fd \in CrewFds : \A chans \in CreateLists :
          LET R == JoinOutcome(fd, chans, << >>) IN
          \A i \in 1..Len(chans) :
             (chans[i] \notin DOMAIN channels /\ ReachesPosition(chans, i))
             => IF chans[i] \in HashOrAmp
                THEN /\ chans[i] \in DOMAIN R.channels
                     /\ R.channels[chans[i]].users = MapPut(EmptyMap, clients[fd].nick, fd)
                     /\ R.channels[chans[i]].operators
                          = MapPut(EmptyMap, clients[fd].nick, fd)
                ELSE /\ chans[i] \notin DOMAIN R.channels
                     /\ \A g \in Fds : \A k \in 1..Len(R.enq[g]) :
                           R.enq[g][k][3] # chans[i]

\* C16 witness: a JOIN of the list &x,z has created &x with its sender as
\* the only user and operator, and has pushed the greeting of &x and nothing
\* else.
C16_Witness ==
    /\ AmpChan \in DOMAIN channels
    /\ \E fd \in CrewFds :
          /\ enq[fd] = << <<"RPL_JOIN", clients[fd].nick, AmpChan, "greeting">> >>
          /\ Keyset(channels[AmpChan].users) = {clients[fd].nick}
          /\ Keyset(channels[AmpChan].operators) = {clients[fd].nick}
          /\ \A g \in Fds \ {fd} : enq[g] = << >>

\* the server state and the frames after fd's line MODE params, with params[2]
\* read as modeString: what the action Mode makes of the state S, and of the
\* current state
ModeFrom(S, fd, modeString, params) ==
    gate(S, fd, handelModeCommand(S, fd, modeString, params))
ModeOutcome(fd, modeString, params) == ModeFrom(St, fd, modeString, params)

\* C17: in every reachable state, a MODE #x +o n sent by an operator of #x,
\* n being a member of #x, leaves n a key of the operators map of #x.
C17_PlusOMakesOperator ==
    ("#x" \in DOMAIN channels)
    => \A fd \in CrewFds : \A n \in Nicks :
          (/\ clients[fd].nick \in Keyset(channels["#x"].operators)
           /\ n \in Keyset(channels["#x"].users))
          => n \in Keyset(ModeOutcome(fd, <<"+", "o">>, <<"#x", "modes", n>>)
                            .channels["#x"].operators)

\* C17 witness: #x has two operators that are both members: the second one
\* was made operator by MODE +o, which is what sets the flag o.
C17_Witness ==
    /\ "#x" \in DOMAIN channels
    /\ channels["#x"].modes["o"]
    /\ Cardinality(Keyset(channels["#x"].operators) \cap Keyset(channels["#x"].users)) = 2

\* C18: in every reachable state, the flag o of a channel is true exactly
\* when its operators map is non-empty.
C18_FlagOTracksOperators ==
    \A name \in DOMAIN channels :
        channels[name].modes["o"] <=> Keyset(channels[name].operators) # {}

\* C18 witness: a channel whose flag o is true while it has exactly one
\* operator: a MODE +o has named the operator it already had.
C18_Witness ==
    \E name \in DOMAIN channels :
        /\ channels[name].modes["o"]
        /\ Cardinality(Keyset(channels[name].operators)) = 1

\* one MODE change of each letter and sign, with its argument
ModeRequests ==
    {<< <<s, x>>, << >> >> : s \in {"+", "-"}, x \in {"i", "t"}}
      \cup {<< <<"+", "k">>, <<"k1">> >>, << <<"-", "k">>, << >> >>,
            << <<"+", "l">>, <<"2">> >>, << <<"-", "l">>, << >> >>}
      \cup {<< <<s, "o">>, <<n>> >> : s \in {"+", "-"}, n \in Nicks}

\* the frames of S are flushed before the next line
Flushed(S) == [S EXCEPT !.enq = NoFrames]

\* C19: in every reachable state, when an operator of #x sends the same MODE
\* change twice in a row, the second command leaves every channel as the
\* first left it and pushes no MODE frame on anybody.
C19_SecondModeIsNoOp ==
    ("#x" \in DOMAIN channels)
    => \A fd \in CrewFds :
          clients[fd].nick \in Keyset(channels["#x"].operators)
          => \A m \in ModeRequests :
                LET params == <<"#x", "modes">> \o m[2]
                    first == ModeFrom(St, fd, m[1], params)
                    second == ModeFrom(Flushed(first), fd, m[1], params)
                IN  /\ second.channels = first.channels
                    /\ \A g \in Fds : \A k \in 1..Len(second.enq[g]) :
                          second.enq[g][k][1] # "MODE"

\* C19 witness: the flag o of #x is true, set by a MODE +o, and #x has a
\* member that is no operator and an operator that is a member.
C19_Witness ==
    /\ "#x" \in DOMAIN channels
    /\ channels["#x"].modes["o"]
    /\ Keyset(channels["#x"].users) \ Keyset(channels["#x"].operators) # {}
    /\ Keyset(channels["#x"].users) \cap Keyset(channels["#x"].operators) # {}

\* the signed letters of the changes of a modestring that altered the channel
\* record, in modestring order: each change is applied as the source applies
\* it and the channel is compared before and after
RECURSIVE AlteringChanges(_, _, _, _, _, _, _, _)
AlteringChanges(S, fd, name, modeString, i, isAdding, params, idx) ==
    IF i > Len(modeString) THEN << >>
    ELSE IF modeString[i] = "+" \/ modeString[i] = "-"
    THEN AlteringChanges(S, fd, name, modeString, i + 1, modeString[i] = "+", params, idx)
    ELSE LET r == processSingleChannelMode(S, fd, name, modeString[i], isAdding,
                                           params, idx)
         IN  (IF r.S.channels[name] # S.channels[name]
              THEN <<(IF isAdding THEN "+" ELSE "-"), modeString[i]>>
              ELSE << >>)
             \o AlteringChanges(r.S, fd, name, modeString, i + 1, isAdding, params, r.idx)

\* modestrings of one and of several changes, with their arguments
ModeLines ==
    {<< <<"+", "i">>, << >> >>, << <<"-", "t">>, << >> >>,
     << <<"+", "i", "t">>, << >> >>, << <<"+", "i", "-", "i">>, << >> >>,
     << <<"+", "k", "l">>, <<"k1", "2">> >>, << <<"-", "k", "l">>, << >> >>}
      \cup {<< <<s, "o">>, <<n>> >> : s \in {"+", "-"}, n \in Nicks}
      \cup {<< <<"+", "i", "-", "o">>, <<n>> >> : n \in Nicks}

\* the MODE frames among the frames pushed on g
ModeFrames(frames) == {k \in 1..Len(frames) : frames[k][1] = "MODE"}

\* C20: in every reachable state, after a MODE line with a modestring from an
\* operator of #x, every member of #x has been pushed exactly one MODE frame
\* when some change of the modestring altered the channel, listing exactly
\* those changes with their signs in modestring order, nobody else has been
\* pushed a MODE frame, and nobody at all when no change altered the channel.
C20_OneFrameOfEffectiveChanges ==
    ("#x" \in DOMAIN channels)
    => \A fd \in CrewFds :
          clients[fd].nick \in Keyset(channels["#x"].operators)
          => \A m \in ModeLines :
                LET params == <<"#x", "modes">> \o m[2]
                    R == ModeOutcome(fd, m[1], params)
                    changes == AlteringChanges(St, fd, "#x", m[1], 1, TRUE, params, 3)
                    members == {R.channels["#x"].users[n] :
                                  n \in Keyset(R.channels["#x"].users)}
                IN  \A g \in Fds :
                       IF changes # << >> /\ g \in members
                       THEN /\ Cardinality(ModeFrames(R.enq[g])) = 1
                            /\ \A k \in ModeFrames(R.enq[g]) :
                                  R.enq[g][k] = <<"MODE", clients[fd].nick, "#x">> \o changes
                       ELSE ModeFrames(R.enq[g]) = {}

\* C20 witness: #x has three members, one of them its only operator, and the
\* flag o is true: a MODE -o on either of the other two erases nothing.
C20_Witness ==
    /\ "#x" \in DOMAIN channels
    /\ channels["#x"].modes["o"]
    /\ Cardinality(Keyset(channels["#x"].users)) = 3
    /\ Cardinality(Keyset(channels["#x"].operators)) = 1
    /\ Keyset(channels["#x"].operators) \subseteq Keyset(channels["#x"].users)

\* C21: in every reachable state, a MODE line with a modestring for #x from a
\* client that is not an operator of #x is answered to that client with
\* ERR_CHANOPRIVSNEEDED alone, pushes nothing on anybody else, and leaves
\* every channel (modes, key, user limit, operators) as it was.
C21_NonOperatorModeRefused ==
    ("#x" \in DOMAIN channels)
    => \A fd \in CrewFds :
          clients[fd].nick \notin Keyset(channels["#x"].operators)
          => \A m \in ModeLines :
                LET R == ModeOutcome(fd, m[1], <<"#x", "modes">> \o m[2])
                IN  /\ R.channels = channels
                    /\ R.enq = [NoFrames EXCEPT ![fd] =
                                   << <<"ERR_CHANOPRIVSNEEDED", clients[fd].nick, "#x">> >>]

\* C21 witness: #x has a member that is not one of its operators.
C21_Witness ==
    /\ "#x" \in DOMAIN channels
    /\ \E fd \in CrewFds :
          /\ clients[fd].nick \in Keyset(channels["#x"].users)
          /\ clients[fd].nick \notin Keyset(channels["#x"].operators)

\* a KICK line on #x as the dispatcher handles it
KickOutcome(fd, targets) ==
    gate(St, fd, handelKickCommand(St, fd, <<"#x", "targets">>, targets))

\* single targets and pairs of targets
KickLists ==
    {<<n>> : n \in Nicks} \cup {<<n, m>> : n, m \in Nicks}

\* the fds of the members of a channel record
MemberFds(ch) == {ch.users[n] : n \in Keyset(ch.users)}

\* C22: in every reachable state, when an operator of #x that is a member
\* sends KICK with a list of targets, every target that is a member other than
\* the sender is afterwards in neither users nor operators of #x, and its KICK
\* frame has been pushed on the target and on every client that is still a
\* member; when the sender is no member or no operator, or no target is a
\* member other than the sender, no channel changes.
C22_KickRemovesTarget ==
    ("#x" \in DOMAIN channels)
    => \A fd \in CrewFds, targets \in KickLists :
          LET nick == clients[fd].nick
              ch == channels["#x"]
              R == KickOutcome(fd, targets)
              hit == {i \in 1..Len(targets) :
                         targets[i] # nick /\ targets[i] \in Keyset(ch.users)}
          IN  IF nick \in Keyset(ch.users) /\ nick \in Keyset(ch.operators) /\ hit # {}
              THEN /\ "#x" \in DOMAIN R.channels
                   /\ \A i \in hit :
                         /\ targets[i] \notin Keyset(R.channels["#x"].users)
                         /\ targets[i] \notin Keyset(R.channels["#x"].operators)
                         /\ \A g \in MemberFds(R.channels["#x"]) \cup {ch.users[targets[i]]} :
                               SeqHas(R.enq[g], <<"RPL_KICK", nick, "#x", targets[i]>>)
              ELSE R.channels = channels

\* C22 witness: #x has three members, one of them an operator.
C22_Witness ==
    /\ "#x" \in DOMAIN channels
    /\ Cardinality(Keyset(channels["#x"].users)) = 3
    /\ \E n \in Keyset(channels["#x"].users) : n \in Keyset(channels["#x"].operators)
    /\ \E n \in Keyset(channels["#x"].users) : n \notin Keyset(channels["#x"].operators)

\* C23: in every reachable state, when an operator of #x that is a member
\* sends KICK with its own nick as a target, alone, before or after another
\* target, the self-kick 482 line is pushed on the sender for that target, and
\* the channels and every other frame are those of the same KICK without the
\* own nick: alone it changes nothing and broadcasts nothing.
C23_SelfKickRefused ==
    ("#x" \in DOMAIN channels)
    => \A fd \in CrewFds :
          LET nick == clients[fd].nick
              ch == channels["#x"]
              self == << <<"482", nick, "#x", "You can't kick yourself">> >>
              alone == KickOutcome(fd, <<nick>>)
          IN  (nick \in Keyset(ch.users) /\ nick \in Keyset(ch.operators))
              => /\ alone.channels = channels
                 /\ alone.enq = [NoFrames EXCEPT ![fd] = self]
                 /\ \A t \in Nicks \ {nick} :
                       LET Q == KickOutcome(fd, <<t>>)
                           first == KickOutcome(fd, <<nick, t>>)
                           last == KickOutcome(fd, <<t, nick>>)
                       IN  /\ first.channels = Q.channels
                           /\ last.channels = Q.channels
                           /\ \A g \in Fds :
                                 /\ first.enq[g] = (IF g = fd THEN self ELSE << >>) \o Q.enq[g]
                                 /\ last.enq[g] = Q.enq[g] \o (IF g = fd THEN self ELSE << >>)

\* C23 witness: #x has an operator that is a member, and another member for
\* the rest of the target list.
C23_Witness ==
    /\ "#x" \in DOMAIN channels
    /\ Cardinality(Keyset(channels["#x"].users)) >= 2
    /\ \E n \in Keyset(channels["#x"].users) : n \in Keyset(channels["#x"].operators)

\* a TOPIC line on #x with the given trailing as the dispatcher handles it
TopicFrom(S, fd, trailing) == gate(S, fd, topicCommand(S, fd, <<"#x">>, trailing))
TopicOutcome(fd, trailing) == TopicFrom(St, fd, trailing)

\* the new topics a TOPIC line can carry
NewTopics == {"t1", "t2"}

\* C24: in every reachable state, a TOPIC with new text for #x from a member:
\* when mode t is set and the member is no operator, it is answered with
\* ERR_CHANOPRIVSNEEDED alone and no channel changes; otherwise the topic
\* becomes the text and RPL_CHANGETOPIC is pushed on every member and on
\* nobody else.
C24_TopicNeedsOperatorUnderT ==
    ("#x" \in DOMAIN channels)
    => \A fd \in CrewFds, text \in NewTopics :
          LET nick == clients[fd].nick
              ch == channels["#x"]
              R == TopicOutcome(fd, text)
          IN  (nick \in Keyset(ch.users))
              => IF ch.modes["t"] /\ nick \notin Keyset(ch.operators)
                 THEN /\ R.channels = channels
                      /\ R.enq = [NoFrames EXCEPT ![fd] =
                                     << <<"ERR_CHANOPRIVSNEEDED", nick, "#x">> >>]
                 ELSE /\ R.channels["#x"].topic = text
                      /\ \A g \in Fds :
                            R.enq[g] = IF g \in MemberFds(ch)
                                       THEN << <<"RPL_CHANGETOPIC", nick, "#x", text>> >>
                                       ELSE << >>

\* C24 witness: a member of #x that is no operator has just been refused a
\* topic change, and #x has an operator among its members.
C24_Witness ==
    /\ "#x" \in DOMAIN channels
    /\ channels["#x"].modes["t"]
    /\ \E fd \in CrewFds :
          /\ clients[fd].nick \in Keyset(channels["#x"].users)
          /\ clients[fd].nick \notin Keyset(channels["#x"].operators)
          /\ enq[fd] = << <<"ERR_CHANOPRIVSNEEDED", clients[fd].nick, "#x">> >>
    /\ \E n \in Keyset(channels["#x"].users) : n \in Keyset(channels["#x"].operators)

\* C25: in every reachable state, after a TOPIC with new text for #x from a
\* member has changed the topic, mode t is set on #x, also when it was clear
\* before, and a following TOPIC with new text from any member that is no
\* operator is answered with ERR_CHANOPRIVSNEEDED and leaves the topic.
C25_TopicChangeSetsT ==
    ("#x" \in DOMAIN channels)
    => \A fd \in CrewFds, text \in NewTopics :
          LET nick == clients[fd].nick
              ch == channels["#x"]
              R == TopicOutcome(fd, text)
          IN  (nick \in Keyset(ch.users)
                 /\ SeqHas(R.enq[fd], <<"RPL_CHANGETOPIC", nick, "#x", text>>))
              => /\ R.channels["#x"].modes["t"]
                 /\ \A g \in CrewFds, next \in NewTopics :
                       LET other == R.clients[g].nick
                           Q == TopicFrom(Flushed(R), g, next)
                       IN  (other \in Keyset(R.channels["#x"].users)
                              /\ other \notin Keyset(R.channels["#x"].operators))
                           => /\ Q.channels = R.channels
                              /\ Q.enq[g] = << <<"ERR_CHANOPRIVSNEEDED", other, "#x">> >>

\* C25 witness: mode t is set on #x right after a member that is no operator
\* has set its topic, which it could only do while t was clear.
C25_Witness ==
    /\ "#x" \in DOMAIN channels
    /\ channels["#x"].modes["t"]
    /\ \E fd \in CrewFds :
          /\ clients[fd].nick \in Keyset(channels["#x"].users)
          /\ clients[fd].nick \notin Keyset(channels["#x"].operators)
          /\ \E text \in NewTopics :
                /\ channels["#x"].topic = text
                /\ enq[fd] = << <<"RPL_CHANGETOPIC", clients[fd].nick, "#x", text>> >>

\* a PRIVMSG line with a text as the dispatcher handles it
MsgOutcome(fd, receiver, trailing) ==
    gate(St, fd, privateMessage(St, fd, <<receiver>>, trailing))

\* C26: in every reachable state, a PRIVMSG with a text to a channel name:
\* from a member of that channel it pushes the message exactly once on every
\* other member and nothing on the sender or on anybody else; from a client
\* that is no member, or to a channel that does not exist, it pushes
\* ERR_CANNOTSENDTOCHAN on the sender and nothing else; clients, channels and
\* the nickname index stay as they were.
C26_ChannelMessageToOthers ==
    \A fd \in CrewFds, name \in ChanNames :
       LET nick == clients[fd].nick
           R == MsgOutcome(fd, name, "hi")
       IN  /\ R.channels = channels
           /\ R.nicknames = nicknames
           /\ R.clients = clients
           /\ IF name \in DOMAIN channels /\ nick \in Keyset(channels[name].users)
              THEN \A g \in Fds :
                      R.enq[g] = IF g \in MemberFds(channels[name]) \ {fd}
                                 THEN << <<"RPL_PRIVMSG", nick, name, "hi">> >>
                                 ELSE << >>
              ELSE R.enq = [NoFrames EXCEPT ![fd] =
                               << <<"ERR_CANNOTSENDTOCHAN", nick, name>> >>]

\* C26 witness: a member of #x has just sent a message to #x, which has two
\* other members, and the third client of the server has received it.
C26_Witness ==
    /\ "#x" \in DOMAIN channels
    /\ Cardinality(Keyset(channels["#x"].users)) = 3
    /\ \E fd \in CrewFds :
          /\ enq[fd] = << >>
          /\ \A g \in CrewFds \ {fd} :
                enq[g] = << <<"RPL_PRIVMSG", clients[fd].nick, "#x", "hi">> >>

\* an INVITE line as the dispatcher handles it
InviteOutcome(fd, targetNick, name) == gate(St, fd, inviteCommand(St, fd, targetNick, name))

\* the outcomes of the commands other than PASS, NICK, USER, QUIT and CAP that
\* a client can send about #x
GatedOutcomes(fd) ==
    {JoinOutcome(fd, <<"#x">>, << >>), JoinOutcome(fd, <<"#y">>, << >>),
     MsgOutcome(fd, "#x", "hi"), TopicOutcome(fd, "t1"),
     ModeOutcome(fd, <<"+", "i">>, <<"#x", "modes">>),
     ModeOutcome(fd, <<"-", "t">>, <<"#x", "modes">>)}
      \cup {KickOutcome(fd, <<n>>) : n \in RegNicks}
      \cup {MsgOutcome(fd, n, "hi") : n \in RegNicks}
      \cup {InviteOutcome(fd, n, "#x") : n \in RegNicks}

\* C27: in every reachable state, a JOIN, PRIVMSG, TOPIC, MODE, KICK or INVITE
\* from a client that is not registered changes no channel, no client and no
\* nickname, and pushes no frame on any other client.
C27_UnregisteredIsGated ==
    \A fd \in DOMAIN clients :
       ~clients[fd].registered
       => \A R \in GatedOutcomes(fd) :
             /\ R.channels = channels
             /\ R.clients = clients
             /\ R.nicknames = nicknames
             /\ \A g \in Fds \ {fd} : R.enq[g] = << >>

\* C27 witness: a client that has a nickname but is not registered is
\* connected while #x exists and a registered client is its member.
C27_Witness ==
    /\ "#x" \in DOMAIN channels
    /\ \E fd \in DOMAIN clients : ~clients[fd].registered /\ clients[fd].nick # ""
    /\ \E fd \in DOMAIN clients :
          clients[fd].registered /\ clients[fd].nick \in Keyset(channels["#x"].users)

\* the positions of the newlines of a stream, and the k-th of them
Newlines(stream) == {i \in 1..Len(stream) : stream[i] = "\n"}
NthNewline(stream, k) ==
    IF k = 0 THEN 0
    ELSE CHOOSE p \in Newlines(stream) :
            Cardinality({q \in Newlines(stream) : q <= p}) = k

\* the newline-terminated segments of a stream, in order, and what follows
\* the last newline
CompleteLines(stream) ==
    [k \in 1..Cardinality(Newlines(stream)) |->
        SubSeq(stream, NthNewline(stream, k - 1) + 1, NthNewline(stream, k))]
OpenTail(stream) ==
    SubSeq(stream, NthNewline(stream, Cardinality(Newlines(stream))) + 1, Len(stream))

\* C28: in every reachable state, whatever the reads were that delivered
\* them, the lines dispatched for the client are the newline-terminated
\* segments of the bytes received from it, in stream order, and its buffer
\* holds the bytes after the last newline.
C28_LinesFollowTheStream ==
    /\ [k \in 1..Len(dispatched[Reader]) |-> dispatched[Reader][k].msg]
          = CompleteLines(received[Reader])
    /\ buffer[Reader] = OpenTail(received[Reader])

\* C28 witness: two lines have been dispatched, the second longer than any
\* read, and an unterminated tail waits in the buffer.
C28_Witness ==
    /\ Len(dispatched[Reader]) = 2
    /\ Len(dispatched[Reader][2].msg) = 3
    /\ buffer[Reader] # << >>

\* the positions where the whitespace-separated tokens of a line start
TokenStarts(line) ==
    {i \in 1..Len(line) :
        line[i] \notin WhiteSpace /\ (i = 1 \/ line[i - 1] \in WhiteSpace)}

\* the token that starts at position i
TokenAt(line, i) ==
    SubSeq(line, i,
           CHOOSE j \in i..Len(line) :
              /\ \A k \in i..j : line[k] \notin WhiteSpace
              /\ (j = Len(line) \/ line[j + 1] \in WhiteSpace))

Least(S) == CHOOSE i \in S : \A j \in S : i <= j

\* where the command token starts, 0 when the line has none: the first token,
\* or, when that one begins with @, the first token that begins with a colon
CommandStart(line) ==
    LET starts == TokenStarts(line)
        afterTags == {i \in starts : line[i] = ":"}
    IN  IF starts = {} THEN 0
        ELSE IF line[Least(starts)] # "@" THEN Least(starts)
        ELSE IF afterTags = {} THEN 0 ELSE Least(afterTags)

\* where the parameter tokens start
ParamStarts(line) ==
    IF CommandStart(line) = 0 THEN {}
    ELSE {i \in TokenStarts(line) : i > CommandStart(line)}

\* where the first parameter token that begins with a colon starts, 0 when
\* there is none
TrailingStart(line) ==
    LET colons == {i \in ParamStarts(line) : line[i] = ":"}
    IN  IF colons = {} THEN 0 ELSE Least(colons)

\* every parameter token before position p is free of invalid characters
ParamsValidBefore(line, p) ==
    \A i \in ParamStarts(line) :
       i < p => \A k \in 1..Len(TokenAt(line, i)) : TokenAt(line, i)[k] # ":"

\* a text without its leading and trailing whitespace
Trimmed(text) ==
    LET solid == {i \in 1..Len(text) : text[i] \notin WhiteSpace}
    IN  IF solid = {} THEN << >>
        ELSE SubSeq(text, Least(solid), CHOOSE i \in solid : \A j \in solid : j <= i)

\* C29: in every reachable state, for every line dispatched that has a
\* parameter token beginning with a colon, with no invalid parameter before
\* it, the parsed trailing is the text of the line from the character after
\* that colon to the end of the line, trimmed of leading and trailing
\* whitespace.
C29_TrailingVerbatim ==
    \A k \in 1..Len(dispatched[Reader]) :
       LET P == dispatched[Reader][k]
           p == TrailingStart(P.msg)
       IN  (p # 0 /\ ParamsValidBefore(P.msg, p))
           => P.trailing = Trimmed(SubSeq(P.msg, p + 1, Len(P.msg)))

\* C29 witness: a line has been dispatched whose trailing holds a space and
\* a colon.
C29_Witness ==
    \E k \in 1..Len(dispatched[Reader]) :
       LET P == dispatched[Reader][k]
       IN  /\ TrailingStart(P.msg) # 0
           /\ \E i, j \in 1..Len(P.trailing) : P.trailing[i] = " " /\ P.trailing[j] = ":"

\* C30: in every reachable state, two commands that arrive in one read are
\* processed in line order: the server is left as by the first command
\* followed by the second, and on every client's queue the frames of the
\* first command come first, in their order, followed by those of the second.
C30_BatchInLineOrder ==
    \A fd \in CrewFds, c1 \in BatchCommands, c2 \in BatchCommands :
       LET first == processCommand(St, fd, c1)
           second == processCommand(Flushed(first), fd, c2)
           both == processCommands(St, fd, <<c1, c2>>, 1)
       IN  /\ both.channels = second.channels
           /\ both.clients = second.clients
           /\ both.nicknames = second.nicknames
           /\ \A g \in Fds : both.enq[g] = first.enq[g] \o second.enq[g]

\* C30 witness: a client has just sent JOIN #x and PRIVMSG #x in one read,
\* and a member of #x holds the frame of the JOIN before that of the PRIVMSG.
C30_Witness ==
    \E fd \in CrewFds, g \in CrewFds :
       /\ g # fd
       /\ enq[g] = << <<"RPL_JOIN", clients[fd].nick, "#x">>,
                      <<"RPL_PRIVMSG", clients[fd].nick, "#x", "hi">> >>

----------------------------------------------------------------------------
\* the JOIN checks of an existing channel in the order of the claim, each
\* with the reply it produces: TRUE where the check fails for the client
FailedChecks(ch, nick, keys) ==
    << <<nick \in Keyset(ch.users), "ERR_USERONCHANNEL">>,
       <<Full(ch) /\ nick \notin Keyset(ch.inviteList), "ERR_CHANNELISFULL">>,
       <<ch.modes["i"] /\ nick \notin Keyset(ch.inviteList), "ERR_INVITEONLYCHAN">>,
       <<ch.modes["k"] /\ ~KeyMatches(ch, keys), "ERR_BADCHANNELKEY">> >>

\* the position of the first check that fails, 0 when all pass
FirstFailed(checks) ==
    IF \E i \in DOMAIN checks : checks[i][1]
    THEN CHOOSE i \in DOMAIN checks :
             checks[i][1] /\ \A j \in 1..(i - 1) : ~checks[j][1]
    ELSE 0

\* C33: in every reachable state, a JOIN of the existing channel #x by a
\* client for which one of the checks already-member, limit, invite-only,
\* key fails is answered with exactly one frame, the reply of the first
\* check in that order that fails, whatever the later checks say; nobody
\* else is sent anything and the channel is left as it was.
C33_FirstFailedCheckReplies ==
    ("#x" \in DOMAIN channels)
    => \A fd \in CrewFds : \A keys \in KeyLists :
          LET nick == clients[fd].nick
              checks == FailedChecks(channels["#x"], nick, keys)
              first == FirstFailed(checks)
              R == JoinOutcome(fd, <<"#x">>, keys)
          IN  first # 0
              => /\ R.enq[fd] = << <<checks[first][2], nick, "#x">> >>
                 /\ \A g \in Fds \ {fd} : R.enq[g] = << >>
                 /\ R.channels = channels

\* C33 witness: #x is full, invite-only and keyed, and a client that is
\* neither a member nor invited and offered no matching key has just been
\* answered with ERR_CHANNELISFULL alone.
C33_Witness ==
    /\ "#x" \in DOMAIN channels
    /\ Full(channels["#x"])
    /\ channels["#x"].modes["i"]
    /\ channels["#x"].modes["k"]
    /\ \E fd \in CrewFds :
          /\ clients[fd].nick \notin Keyset(channels["#x"].users)
          /\ clients[fd].nick \notin Keyset(channels["#x"].inviteList)
          /\ enq[fd] = << <<"ERR_CHANNELISFULL", clients[fd].nick, "#x">> >>

----------------------------------------------------------------------------
\* C39: in every reachable state, a KICK on #x with one or two targets sent
\* by a client that is a member and an operator of #x leaves #x in the
\* registry with the sender still among its users and its operators.
C39_KickKeepsSender ==
    ("#x" \in DOMAIN channels)
    => \A fd \in CrewFds, targets \in KickLists :
          LET nick == clients[fd].nick
              R == KickOutcome(fd, targets)
          IN  (nick \in Keyset(channels["#x"].users)
                  /\ nick \in Keyset(channels["#x"].operators))
              => /\ "#x" \in DOMAIN R.channels
                 /\ nick \in Keyset(R.channels["#x"].users)
                 /\ nick \in Keyset(R.channels["#x"].operators)

\* C39 witness: #x has three members, one of them its only operator, so a
\* KICK of that operator removes both of the others.
C39_Witness ==
    /\ "#x" \in DOMAIN channels
    /\ Cardinality(Keyset(channels["#x"].users)) = 3
    /\ \E fd \in CrewFds :
          /\ clients[fd].nick \in Keyset(channels["#x"].users)
          /\ Keyset(channels["#x"].operators) = {clients[fd].nick}
          /\ \E t \in KickLists :
                Keyset(KickOutcome(fd, t).channels["#x"].users) = {clients[fd].nick}

----------------------------------------------------------------------------
----------------------------------------------------------------------------
\* the entries of a map whose client does not have the entry's key as its
\* current nickname
Misnamed(m) == {n \in Keyset(m) : m[n] \notin DOMAIN clients \/ clients[m[n]].nick # n}

\* C37: in every reachable state, for every channel, every key of its users,
\* operators and inviteList maps is the current nickname of the client the
\* entry points to.
C37_KeysAreCurrentNicks ==
    \A name \in DOMAIN channels :
       /\ Misnamed(channels[name].users) = {}
       /\ Misnamed(channels[name].operators) = {}
       /\ Misnamed(channels[name].inviteList) = {}

----------------------------------------------------------------------------
\* a TOPIC line on #x without trailing sent by a member is answered as a
\* query: one frame on the sender, RPL_NOTOPIC or RPL_TOPIC with the stored
\* topic, nothing on anybody else, and no channel changes
TopicQueryAnswered ==
    ("#x" \in DOMAIN channels)
    => \A fd \in CrewFds :
          LET nick == clients[fd].nick
              topic == channels["#x"].topic
              R == TopicOutcome(fd, "")
          IN  nick \in Keyset(channels["#x"].users)
              => /\ R.channels = channels
                 /\ R.enq = [NoFrames EXCEPT ![fd] =
                                << IF topic = "" THEN <<"RPL_NOTOPIC", nick, "#x">>
                                   ELSE <<"RPL_TOPIC", nick, "#x", topic>> >>]

\* C40: in every step, a channel that stays in the registry and has a
\* non-empty topic has a non-empty topic afterwards; and in every state a
\* step is taken from, a TOPIC without trailing by a member is answered as a
\* query and changes neither the topic nor mode t nor anything else of a
\* channel.
C40_TopicNeverCleared ==
    [][/\ \A name \in DOMAIN channels \cap DOMAIN channels' :
             channels[name].topic # "" => channels'[name].topic # ""
       /\ TopicQueryAnswered]_vars

\* C40 witness: #x has a topic, and a member has just asked for it with a
\* TOPIC line without trailing.
C40_Witness ==
    /\ "#x" \in DOMAIN channels
    /\ channels["#x"].topic # ""
    /\ \E fd \in CrewFds :
          /\ clients[fd].nick \in Keyset(channels["#x"].users)
          /\ enq[fd] = << <<"RPL_TOPIC", clients[fd].nick, "#x", channels["#x"].topic>> >>

----------------------------------------------------------------------------
\* a MODE line of fd on #x with one sign, one letter and the given arguments
ModeOne(fd, sign, letter, args) ==
    ModeOutcome(fd, <<sign, letter>>, <<"#x", "modes">> \o args)

\* C36: in every reachable state, every channel with mode k set has a
\* non-empty alphanumeric key and every channel with mode l set has a
\* positive userLimit; a MODE +k with a non-alphanumeric argument and a MODE
\* +l with a non-positive argument, sent by an operator while the flag is
\* clear, are answered with ERR_INVALIDMODEPARAM and change no channel; and
\* after an operator's MODE -k the key is empty and mode k is clear.
C36_KeyAndLimitWellFormed ==
    /\ \A name \in DOMAIN channels :
          /\ channels[name].modes["k"]
                => channels[name].key # "" /\ isAlphanumeric(channels[name].key)
          /\ channels[name].modes["l"] => channels[name].UserLimit > 0
    /\ ("#x" \in DOMAIN channels)
       => \A fd \in CrewFds :
             LET nick == clients[fd].nick
                 ch == channels["#x"]
             IN  nick \in Keyset(ch.operators)
                 => /\ ~ch.modes["k"]
                       => LET R == ModeOne(fd, "+", "k", <<BadKey>>)
                          IN  /\ R.channels = channels
                              /\ R.enq[fd] = << <<"ERR_INVALIDMODEPARAM", nick, "#x",
                                                  "k", BadKey>> >>
                    /\ ~ch.modes["l"]
                       => \A n \in LimitArgs :
                             atoi(n) <= 0
                             => LET R == ModeOne(fd, "+", "l", <<n>>)
                                IN  /\ R.channels = channels
                                    /\ R.enq[fd] = << <<"ERR_INVALIDMODEPARAM", nick,
                                                        "#x", "l", n>> >>
                    /\ LET R == ModeOne(fd, "-", "k", << >>)
                       IN  /\ R.channels["#x"].key = ""
                           /\ ~R.channels["#x"].modes["k"]

\* C36 witness: #x has key and limit set, and an operator's MODE +l with a
\* non-positive argument has just been refused (the limit was clear then).
C36_Witness ==
    /\ "#x" \in DOMAIN channels
    /\ channels["#x"].modes["k"]
    /\ channels["#x"].key = "k1"
    /\ ~channels["#x"].modes["l"]
    /\ \E fd \in CrewFds :
          /\ clients[fd].nick \in Keyset(channels["#x"].operators)
          /\ enq[fd] = << <<"ERR_INVALIDMODEPARAM", clients[fd].nick, "#x", "l", "0">> >>

----------------------------------------------------------------------------
\* the number of arguments the claim's table gives a signed mode letter
TableConsumes(mode, isAdding) ==
    IF (mode \in {"k", "l"} /\ isAdding) \/ mode = "o" THEN 1 ELSE 0

\* C34: in every reachable state with #x, for an operator of #x, every signed
\* mode letter moves the argument position by what the table says when an
\* argument remains, whatever the flags of #x are; and MODE #x +ok nick key
\* on a channel without a key stores key as the channel's key.
C34_ArgumentsPairedByTable ==
    ("#x" \in DOMAIN channels)
    => \A fd \in CrewFds :
          clients[fd].nick \in Keyset(channels["#x"].operators)
          => /\ \A mode \in {"i", "t", "k", "l", "o", "b"}, isAdding \in BOOLEAN :
                   processSingleChannelMode(St, fd, "#x", mode, isAdding,
                                            <<"#x", "modes", "b", "k1">>, 3).idx
                       = 3 + TableConsumes(mode, isAdding)
             /\ ~channels["#x"].modes["k"]
                => \A n \in Nicks :
                      ModeOutcome(fd, <<"+", "o", "k">>, <<"#x", "modes", n, "k1">>)
                          .channels["#x"].key = "k1"

----------------------------------------------------------------------------
\* C31: in every reachable state the event loop has not been left by an
\* exception: a failed accept leaves the server in its tick, with the client
\* table and the poll set as they were.
C31_AcceptFailureContained == loop # "thrown"

\* the sockets close() has not been called on
OpenSockets == (DOMAIN clients) \ closed

\* C32: in every step, once signalInterrupt is set no tick is started, and
\* the step that leaves the loop calls close on every socket of the client
\* table and leaves the client table and the poll set empty.
C32_ShutdownCleansUp ==
    [][/\ (signalInterrupt /\ loop = "poll") => loop' \notin {"accept", "iter"}
       /\ (loop # "exited" /\ loop' = "exited")
          => /\ (DOMAIN clients) \subseteq closed'
             /\ DOMAIN clients' = {}
             /\ fds' = << >>]_vars

\* once signalInterrupt is set, runServer reaches its exit
ShutdownReached == signalInterrupt ~> (loop = "exited")

\* once signalInterrupt is set no tick is started
NoTickAfterSignal ==
    [][(signalInterrupt /\ loop = "poll") => loop' \notin {"accept", "iter"}]_vars

\* C35: in every step of the pass over the poll entries, a client entry
\* whose revents hold POLLOUT, whose queue is not empty, which stays in the
\* poll set and on which no send fails has all its queued frames written and
\* its queue emptied, whether or not its revents also hold POLLIN.
C35_WritableIsFlushed ==
    [][\A fd \in Fds :
          (/\ loop = "iter"
           /\ fd \notin DOMAIN revents
           /\ fd \in DOMAIN revents'
           /\ "OUT" \in revents'[fd]
           /\ serverReplies[fd] # << >>
           /\ SeqHas(fds', fd)
           /\ fails' = fails)
          => /\ wire'[fd] = wire[fd] \o serverReplies[fd]
             /\ serverReplies'[fd] = << >>]_vars

\* the same for entries whose revents hold POLLOUT alone
WritableAloneIsFlushed ==
    [][\A fd \in Fds :
          (/\ loop = "iter"
           /\ fd \notin DOMAIN revents
           /\ fd \in DOMAIN revents'
           /\ revents'[fd] = {"OUT"}
           /\ serverReplies[fd] # << >>
           /\ fails' = fails)
          => /\ wire'[fd] = wire[fd] \o serverReplies[fd]
             /\ serverReplies'[fd] = << >>]_vars

====
